---- MODULE Spec2Model ----
(***************************************************************************)
(* A model of the SCOPE editor package: the libcst-based ProjectParser     *)
(* (src/editor/ast_parser.py) and the CodeSemanticTree built on it         *)
(* (src/editor/code_tree.py).                                              *)
(*                                                                         *)
(* Representation.                                                         *)
(*   text      a sequence of lines; a line is a sequence of tokens, the    *)
(*             indentation unit being one token, so a column is a token    *)
(*             index.  The empty string is << >>.                          *)
(*   Optional  None is << >>, a present value x is << x >>.                *)
(*   statement a record [k, nm, lead, hl, body, orelse, s, e]: kind, name  *)
(*             or text, leading blank lines, header lines, the indented    *)
(*             block, the other branch block (else/except/finally), and    *)
(*             the first and last line that libcst's PositionProvider      *)
(*             reports for it (0 when not computed).                       *)
(*   id        a record [f, q]: the relative path parts and the qualified  *)
(*             name parts; "a/b.py::C.m" is [f |-> <<"a","b.py">>,         *)
(*             q |-> <<"C","m">>], "root" is [f |-> <<"root">>, q |-> <<>>]*)
(*   dict      a sequence of << key, value >> pairs in insertion order.    *)
(* The trees of the collect_context calls hold their texts as sequences of *)
(* characters instead, since the token estimate counts characters.         *)
(***************************************************************************)
EXTENDS Integers, Sequences, FiniteSets, TLC

\* ------------------------------------------------------------------ bounds
\* Largest relative_line a caller passes.
MaxRel == 3
\* Number of successful edits after which no further edit is explored.
MaxEdits == 2

\* -------------------------------------------------------------- primitives
None == << >>
Some(x) == << x >>

Max(a, b) == IF a >= b THEN a ELSE b
Min(a, b) == IF a <= b THEN a ELSE b

Front(q) == SubSeq(q, 1, Len(q) - 1)
Last(q) == q[Len(q)]

RECURSIVE Repeat(_, _)
Repeat(x, n) == IF n <= 0 THEN << >> ELSE << x >> \o Repeat(x, n - 1)

IndentTok == "    "
Ind(d) == Repeat(IndentTok, d)

\* ------------------------------------------------------ statements (libcst)
Stmt(k, nm, lead, hl, body, orelse) ==
    [k |-> k, nm |-> nm, lead |-> lead, hl |-> hl, body |-> body,
     orelse |-> orelse, s |-> 0, e |-> 0]
Simple(nm) == Stmt("simple", nm, 0, 1, << >>, << >>)
If(nm, body, orelse) == Stmt("if", nm, 0, 1, body, orelse)
For(nm, body) == Stmt("for", nm, 0, 1, body, << >>)
FunctionDef(nm, body) == Stmt("def", nm, 0, 1, body, << >>)
ClassDef(nm, body) == Stmt("class", nm, 0, 1, body, << >>)
\* `def nm(): pass` written on one line: the body is a simple statement suite
\* on the header line.
OneLineDef(nm) == Stmt("def", nm, 0, 1, << >>, << >>)
Lead(st, n) == [st EXCEPT !.lead = n]
HeaderLines(st, n) == [st EXCEPT !.hl = n]

\* The statements whose .body resolve_insertion descends into.
BodyOwners == {"if", "for", "while", "with", "try"}

\* cst_meta.PositionProvider: first and last line of every statement of a list
\* that starts at `line`.  A statement starts after its leading lines and ends
\* with the last line of its last block.
RECURSIVE PositionProvider(_, _)
PositionProvider(stmts, line) ==
    IF stmts = << >> THEN << >>
    ELSE LET st == Head(stmts)
             s == line + st.lead
             b == PositionProvider(st.body, s + st.hl)
             bEnd == IF b = << >> THEN s + st.hl - 1 ELSE b[Len(b)].e
             o == PositionProvider(st.orelse, bEnd + 2)
             e == IF o = << >> THEN bEnd ELSE o[Len(o)].e
             h == [st EXCEPT !.body = b, !.orelse = o, !.s = s, !.e = e]
         IN << h >> \o PositionProvider(Tail(stmts), e + 1)

\* cst_meta.MetadataWrapper(module): the module with its positions resolved.
MetadataWrapper(mod) == PositionProvider(mod, 1)

\* Module.code: the text of a statement list at indentation depth d.
HeadTokens(st) ==
    IF st.k = "simple" THEN << st.nm >>
    ELSE IF st.k = "def" THEN << "def", st.nm >>
    ELSE IF st.k = "class" THEN << "class", st.nm >>
    ELSE << st.k, st.nm >>

RECURSIVE Code(_, _)
Code(stmts, d) ==
    IF stmts = << >> THEN << >>
    ELSE LET st == Head(stmts)
         IN Repeat(<< >>, st.lead)
            \o << Ind(d) \o HeadTokens(st) >>
            \o Repeat(Ind(d) \o << "..." >>, st.hl - 1)
            \o Code(st.body, d + 1)
            \o (IF st.orelse = << >> THEN << >>
                ELSE << Ind(d) \o << "else" >> >> \o Code(st.orelse, d + 1))
            \o Code(Tail(stmts), d)

ModuleCode(mod) == Code(mod, 0)

\* ------------------------------------------------- _SymbolCollector (index)
\* Position: start (line, column) and end (line, column).
Position(st, d, src) ==
    [start |-> << st.s, d >>, end |-> << st.e, Len(src[st.e]) >>]

SymbolRecord(file, qn, kind, pos) ==
    [file |-> file, qualname |-> qn, kind |-> kind, position |-> pos]

\* Mutant of Put: a key that is present keeps its first record.
PutFirst(recs, rec) ==
    IF \E i \in 1..Len(recs) : recs[i].qualname = rec.qualname
    THEN recs
    ELSE Append(recs, rec)

\* self.records[qn] = rec: a dict keeps the place of the first insertion of a
\* key and the value of the last.
Put(recs, rec) ==
    IF \E i \in 1..Len(recs) : recs[i].qualname = rec.qualname
    THEN [i \in 1..Len(recs) |->
             IF recs[i].qualname = rec.qualname THEN rec ELSE recs[i]]
    ELSE Append(recs, rec)

\* _qualname: the class stack joined with the name.
Qualname(stack, nm) == Append(stack, nm)

\* The collector: self.records and self._class_stack.
Collector(records, class_stack) == [records |-> records, class_stack |-> class_stack]

\* visit_ClassDef: record the class, then push its name.
VisitClassDef(c, st, d, file, src) ==
    Collector(Put(c.records, SymbolRecord(file, Qualname(c.class_stack, st.nm), "class",
                                          Position(st, d, src))),
              Append(c.class_stack, st.nm))

\* Mutant of LeaveClassDef: the class name stays on the stack.
LeaveClassDefKeep(c) == c

\* leave_ClassDef: _pop, which pops a stack that is not empty.
LeaveClassDef(c) ==
    IF c.class_stack # << >> THEN Collector(c.records, Front(c.class_stack)) ELSE c

\* visit_FunctionDef
VisitFunctionDef(c, st, d, file, src) ==
    Collector(Put(c.records, SymbolRecord(file, Qualname(c.class_stack, st.nm),
                                          IF c.class_stack # << >> THEN "method" ELSE "function",
                                          Position(st, d, src))),
              c.class_stack)

\* The visitor's walk over a statement list, in document order: a node is
\* visited, then its children, then left.
RECURSIVE Visit(_, _, _, _, _)
Visit(stmts, c, d, file, src) ==
    IF stmts = << >> THEN c
    ELSE LET st == Head(stmts)
             c1 == IF st.k = "class" THEN VisitClassDef(c, st, d, file, src)
                   ELSE IF st.k = "def" THEN VisitFunctionDef(c, st, d, file, src)
                   ELSE c
             c2 == Visit(st.body, c1, d + 1, file, src)
             c3 == Visit(st.orelse, c2, d + 1, file, src)
             c4 == IF st.k = "class" THEN LeaveClassDef(c3) ELSE c3
         IN Visit(Tail(stmts), c4, d, file, src)

\* wrapper.visit(collector): the collector when the walk ends.
Walk(file, wrapped) ==
    Visit(wrapped, Collector(<< >>, << >>), 0, file, ModuleCode(wrapped))

\* wrapper.visit(_SymbolCollector(file)); collector.records
SymbolCollector(file, wrapped) == Walk(file, wrapped).records

\* ------------------------------------------ ProjectParser.edit_symbol
\* What a raise inside the transformer leaves in place of the statement list.
Raised(exc) == << Stmt("raise", exc, 0, 1, << >>, << >>) >>

RECURSIVE RaisedIn(_)
RaisedIn(stmts) ==
    IF stmts = << >> THEN None
    ELSE LET st == Head(stmts)
             here == IF st.k = "raise" THEN Some(st.nm) ELSE None
             b == RaisedIn(st.body)
             o == RaisedIn(st.orelse)
         IN IF here # None THEN here
            ELSE IF b # None THEN b
            ELSE IF o # None THEN o
            ELSE RaisedIn(Tail(stmts))

\* Mutant of Descend: a statement that starts exactly at the target line is
\* passed over instead of being the insertion point.
RECURSIVE DescendStrict(_, _, _, _)
DescendStrict(stmts, i, path, target_line) ==
    IF i > Len(stmts)
    THEN [path |-> path, index |-> Len(stmts), hit |-> FALSE]
    ELSE LET st == stmts[i]
         IN IF target_line < st.s
            THEN [path |-> path, index |-> i - 1, hit |-> FALSE]
            ELSE IF st.s < target_line /\ target_line <= st.e /\ st.k \in BodyOwners
            THEN DescendStrict(st.body, 1, Append(path, i - 1), target_line)
            ELSE DescendStrict(stmts, i + 1, path, target_line)

\* resolve_insertion.descend: scan the statements of a body of the original
\* tree from the i-th (1-based) on; the result is the path of 0-based
\* statement indexes, the 0-based index in the located body and whether the
\* target line is the first line of a statement.
RECURSIVE Descend(_, _, _, _)
Descend(stmts, i, path, target_line) ==
    IF i > Len(stmts)
    THEN [path |-> path, index |-> Len(stmts), hit |-> FALSE]
    ELSE LET st == stmts[i]
         IN IF target_line <= st.s
            THEN [path |-> path, index |-> i - 1, hit |-> target_line = st.s]
            ELSE IF st.s < target_line /\ target_line <= st.e /\ st.k \in BodyOwners
            THEN Descend(st.body, 1, Append(path, i - 1), target_line)
            ELSE Descend(stmts, i + 1, path, target_line)

ResolveInsertion(original_body, target_line) ==
    Descend(original_body, 1, << >>, target_line)

\* get_parent_body: the statement list that the path leads to in the updated
\* function.
RECURSIVE GetParentBody(_, _)
GetParentBody(body, path) ==
    IF path = << >> THEN body
    ELSE GetParentBody(body[Head(path) + 1].body, Tail(path))

\* Mutant of NewBodyStmts: the range check of replace is off by one, so a
\* replace at the end of the list is let through.
NewBodyStmtsLateCheck(parent_body, insert_idx, stmts_to_insert, mode) ==
    IF mode = "insert"
    THEN SubSeq(parent_body, 1, insert_idx) \o stmts_to_insert
         \o SubSeq(parent_body, insert_idx + 1, Len(parent_body))
    ELSE IF mode = "replace"
    THEN IF insert_idx > Len(parent_body)
         THEN Raised("IndexError")
         ELSE SubSeq(parent_body, 1, insert_idx) \o stmts_to_insert
              \o SubSeq(parent_body, insert_idx + 2, Len(parent_body))
    ELSE Raised("ValueError")

\* new_body_stmts after the insert or the replace.
NewBodyStmts(parent_body, insert_idx, stmts_to_insert, mode) ==
    IF mode = "insert"
    THEN SubSeq(parent_body, 1, insert_idx) \o stmts_to_insert
         \o SubSeq(parent_body, insert_idx + 1, Len(parent_body))
    ELSE IF mode = "replace"
    THEN IF insert_idx >= Len(parent_body)
         THEN Raised("IndexError")
         ELSE SubSeq(parent_body, 1, insert_idx) \o stmts_to_insert
              \o SubSeq(parent_body, insert_idx + 2, Len(parent_body))
    ELSE Raised("ValueError")

\* Mutant of Rebuild: an owner on the way is re-made from its new block alone,
\* its other branch is lost.
RECURSIVE RebuildDropBranches(_, _, _)
RebuildDropBranches(body, path, new_leaf_body) ==
    IF path = << >> THEN new_leaf_body
    ELSE [body EXCEPT ![Head(path) + 1] =
             [@ EXCEPT !.body = RebuildDropBranches(body[Head(path) + 1].body,
                                                    Tail(path), new_leaf_body),
                       !.orelse = << >>]]

\* rebuild: the body of the updated function with the statement list at the
\* path replaced by new_leaf_body, every owner on the way re-wrapped.
RECURSIVE Rebuild(_, _, _)
Rebuild(body, path, new_leaf_body) ==
    IF path = << >> THEN new_leaf_body
    ELSE [body EXCEPT ![Head(path) + 1].body =
             Rebuild(body[Head(path) + 1].body, Tail(path), new_leaf_body)]

\* Mutant of LeaveFunctionDef: the first body line is taken to be two lines
\* after the def line.
LeaveFunctionDefLineOff(original_node, updated_node, relative_line, stmts_to_insert, mode) ==
    LET target_line == original_node.s + 2 + relative_line
        r == ResolveInsertion(original_node.body, target_line)
        parent_body == GetParentBody(updated_node.body, r.path)
        new_parent_body == NewBodyStmts(parent_body, r.index, stmts_to_insert, mode)
    IN [updated_node EXCEPT !.body = Rebuild(updated_node.body, r.path, new_parent_body)]

\* QuickEdit.leave_FunctionDef for a function whose qualified name is the
\* target: positions come from original_node, the edit is made on updated_node.
LeaveFunctionDef(original_node, updated_node, relative_line, stmts_to_insert, mode) ==
    LET target_line == original_node.s + 1 + relative_line
        r == ResolveInsertion(original_node.body, target_line)
        parent_body == GetParentBody(updated_node.body, r.path)
        new_parent_body == NewBodyStmts(parent_body, r.index, stmts_to_insert, mode)
    IN [updated_node EXCEPT !.body = Rebuild(updated_node.body, r.path, new_parent_body)]

\* wrapper.visit(QuickEdit(target)): children first, then the node itself.
RECURSIVE QuickEdit(_, _, _, _, _, _)
QuickEdit(stmts, class_stack, target, relative_line, stmts_to_insert, mode) ==
    IF stmts = << >> THEN << >>
    ELSE LET st == Head(stmts)
             inner == IF st.k = "class" THEN Append(class_stack, st.nm) ELSE class_stack
             updated == [st EXCEPT
                 !.body = QuickEdit(st.body, inner, target, relative_line, stmts_to_insert, mode),
                 !.orelse = QuickEdit(st.orelse, class_stack, target, relative_line, stmts_to_insert, mode)]
             left == IF st.k = "def" /\ Qualname(class_stack, st.nm) = target
                     THEN LeaveFunctionDef(st, updated, relative_line, stmts_to_insert, mode)
                     ELSE updated
         IN << left >> \o QuickEdit(Tail(stmts), class_stack, target, relative_line, stmts_to_insert, mode)

\* ------------------------------------------------------------- dicts
\* A Python dict is a sequence of << key, value >> pairs in insertion order.
DictHas(d, k) == \E i \in 1..Len(d) : d[i][1] = k
DictGet(d, k) == d[CHOOSE i \in 1..Len(d) : d[i][1] = k][2]
\* Mutant of DictSet: an entry is added even when the key is present.
DictAppend(d, k, v) == Append(d, << k, v >>)
DictSet(d, k, v) ==
    IF DictHas(d, k)
    THEN [i \in 1..Len(d) |-> IF d[i][1] = k THEN << k, v >> ELSE d[i]]
    ELSE Append(d, << k, v >>)
DictKeys(d) == [i \in 1..Len(d) |-> d[i][1]]
KeySet(d) == {d[i][1] : i \in 1..Len(d)}

\* A symbol table (records keyed by qualified name).
RecsHas(recs, qn) == \E i \in 1..Len(recs) : recs[i].qualname = qn
RecsGet(recs, qn) == recs[CHOOSE i \in 1..Len(recs) : recs[i].qualname = qn]

\* ------------------------------------------------------ the project on disk
\* The files os.walk finds under the root, in its order, each with whether
\* read_text succeeds, whether cst.parse_module succeeds, and the module it
\* parses to.
FileA == << "a.py" >>
FileB == << "pkg", "b.py" >>
FileT == << "tests", "test_c.py" >>
FileE == << "e.py" >>
FileX == << "pkg", "x.py" >>

ModA == << FunctionDef("f", << If("c", << Simple("pass") >>, << Simple("q") >>),
                               Lead(Simple("return"), 1) >>),
           ClassDef("C", << HeaderLines(FunctionDef("m", << Simple("pass") >>), 2) >>) >>
ModB == << FunctionDef("f", << Simple("pass") >>),
           FunctionDef("f", << Simple("pass"), Simple("return") >>) >>
ModT == << FunctionDef("t", << If("c", << Simple("pass") >>, << >>) >>) >>

DiskFile(readable, parses, mod) ==
    [readable |-> readable, parses |-> parses, mod |-> mod]

Disk == << << FileA, DiskFile(TRUE, TRUE, ModA) >>,
           << FileE, DiskFile(TRUE, TRUE, << >>) >>,
           << FileB, DiskFile(TRUE, TRUE, ModB) >>,
           << FileX, DiskFile(TRUE, FALSE, << >>) >>,
           << FileT, DiskFile(TRUE, TRUE, ModT) >> >>

\* _iter_py_files on the directory `dsk`
IterPyFiles(dsk) == DictKeys(dsk)

\* "tests" in f.parts or f.name.startswith("test_")
TestNames == {"test_c.py"}
IsTestPath(file) ==
    \/ \E i \in 1..Len(file) : file[i] = "tests"
    \/ Last(file) \in TestNames

\* ------------------------------------------------ ProjectParser.build_index
Parser(idx, srcs, mods) == [index |-> idx, sources |-> srcs, modules |-> mods]

RECURSIVE BuildIndexFrom(_, _, _)
BuildIndexFrom(dsk, p, files) ==
    IF files = << >> THEN p
    ELSE LET file == Head(files)
             df == DictGet(dsk, file)
             wrapper == MetadataWrapper(df.mod)
         IN IF ~df.readable \/ ~df.parses
            THEN BuildIndexFrom(dsk, p, Tail(files))
            ELSE BuildIndexFrom(dsk,
                   Parser(DictSet(p.index, file, SymbolCollector(file, wrapper)),
                          DictSet(p.sources, file, ModuleCode(df.mod)),
                          DictSet(p.modules, file, wrapper)),
                   Tail(files))

RECURSIVE FilterTests(_)
FilterTests(idx) ==
    IF idx = << >> THEN << >>
    ELSE (IF IsTestPath(Head(idx)[1]) THEN << >> ELSE << Head(idx) >>)
         \o FilterTests(Tail(idx))

BuildIndexOp(dsk, p, include_tests) ==
    LET q == BuildIndexFrom(dsk, p, IterPyFiles(dsk))
    IN IF include_tests THEN q
       ELSE Parser(FilterTests(q.index), q.sources, q.modules)

\* ---------------------------------------------------- source text of a record
\* Python's lines[a:b] on 0-based bounds.
Slice(sq, a, b) == SubSeq(sq, Max(a, 0) + 1, Min(b, Len(sq)))

\* Mutant of GetSource: whole lines, the columns ignored.
GetSourceWholeLines(p, record) ==
    Slice(DictGet(p.sources, record.file), record.position.start[1] - 1,
          record.position.end[1])

GetSource(p, record) ==
    LET lines == DictGet(p.sources, record.file)
        start_line == record.position.start[1]
        start_col == record.position.start[2]
        end_line == record.position.end[1]
        end_col == record.position.end[2]
    IN IF start_line = end_line
       THEN << Slice(lines[start_line], start_col, end_col) >>
       ELSE << Slice(lines[start_line], start_col, Len(lines[start_line])) >>
            \o Slice(lines, start_line, end_line - 1)
            \o << Slice(lines[end_line], 0, end_col) >>

GetSourceWithContext(p, record, before, after) ==
    LET lines == DictGet(p.sources, record.file)
        start == Max(record.position.start[1] - 1 - before, 0)
        end == Min(record.position.end[1] - 1 + after, Len(lines) - 1)
    IN Slice(lines, start, end + 1)

\* ----------------------------------------------- ProjectParser.edit_symbol
\* new_code as the caller gives it: whether cst.parse_module accepts it and
\* the statements it parses to.
NewCode(ok, stmts) == [ok |-> ok, stmts |-> stmts]

\* The outcome of a call: the exception raised (None when it returns), the
\* parser afterwards, and the returned record.
Outcome(raised, p, rec) == [raised |-> raised, parser |-> p, rec |-> rec]

\* Mutant of ParserEditSymbol: the source text and the module are cached, the
\* symbol table is not re-made.
ParserEditSymbolStaleIndex(p, file, symbol_path, relative_line, new_code, mode) ==
    IF ~DictHas(p.modules, file) THEN Outcome(Some("KeyError"), p, None)
    ELSE IF ~new_code.ok THEN Outcome(Some("ParserSyntaxError"), p, None)
    ELSE LET module == DictGet(p.modules, file)
             wrapper == MetadataWrapper(module)
             new_module == QuickEdit(wrapper, << >>, symbol_path, relative_line,
                                     new_code.stmts, mode)
             exc == RaisedIn(new_module)
             q == Parser(p.index,
                         DictSet(p.sources, file, ModuleCode(new_module)),
                         DictSet(p.modules, file, MetadataWrapper(new_module)))
         IN IF exc # None THEN Outcome(exc, p, None)
            ELSE IF ~DictHas(q.index, file) \/ ~RecsHas(DictGet(q.index, file), symbol_path)
            THEN Outcome(Some("KeyError"), q, None)
            ELSE Outcome(None, q, Some(RecsGet(DictGet(q.index, file), symbol_path)))

ParserEditSymbol(p, file, symbol_path, relative_line, new_code, mode) ==
    IF ~DictHas(p.modules, file) THEN Outcome(Some("KeyError"), p, None)
    ELSE IF ~new_code.ok THEN Outcome(Some("ParserSyntaxError"), p, None)
    ELSE LET module == DictGet(p.modules, file)
             wrapper == MetadataWrapper(module)
             new_module == QuickEdit(wrapper, << >>, symbol_path, relative_line,
                                     new_code.stmts, mode)
             exc == RaisedIn(new_module)
             wrapper2 == MetadataWrapper(new_module)
             q == Parser(DictSet(p.index, file, SymbolCollector(file, wrapper2)),
                         DictSet(p.sources, file, ModuleCode(new_module)),
                         DictSet(p.modules, file, wrapper2))
         IN IF exc # None THEN Outcome(exc, p, None)
            ELSE IF ~RecsHas(DictGet(q.index, file), symbol_path)
            THEN Outcome(Some("KeyError"), q, None)
            ELSE Outcome(None, q, Some(RecsGet(DictGet(q.index, file), symbol_path)))

\* ------------------------------------------------------------ CodeNode
Id(f, q) == [f |-> f, q |-> q]
RootId == Id(<< "root" >>, << >>)

Meta(file, qualname, position, path) ==
    [file |-> file, qualname |-> qualname, position |-> position, path |-> path]
NoMeta == Meta(None, None, None, None)

CodeNode(id, name, kind, source, summary, meta) ==
    [id |-> id, name |-> name, kind |-> kind, parent |-> None,
     children |-> << >>, source |-> source, summary |-> summary, meta |-> meta]

\* CodeSemanticTree.__init__ with a parser: the root node alone.
FreshNodes == RootId :> CodeNode(RootId, << "Project" >>, "project", None, None, NoMeta)

\* CodeSemanticTree.add_child: parent.add_child(child); self.add_node(child)
AddChild(ns, parent_id, child) ==
    (child.id :> [child EXCEPT !.parent = Some(parent_id)])
    @@ [ns EXCEPT ![parent_id].children = Append(@, child.id)]

SetSummary(ns, node_id, summary) == [ns EXCEPT ![node_id].summary = Some(summary)]
SetSource(ns, node_id, source) == [ns EXCEPT ![node_id].source = Some(source)]

\* ------------------------------- build_from_parser_with_folder
SymbolMeta(file_id, rec) ==
    Meta(Some(file_id), Some(rec.qualname),
         Some(<< rec.position.start[1], rec.position.end[1] >>), None)

\* Step 1: one folder node per directory prefix that has none yet.
RECURSIVE EnsureFolders(_, _, _)
EnsureFolders(ns, parts, k) ==
    IF k > Len(parts) - 1 THEN ns
    ELSE LET folder_path == Id(SubSeq(parts, 1, k), << >>)
             parent_id == IF k = 1 THEN RootId ELSE Id(SubSeq(parts, 1, k - 1), << >>)
             folder_node == CodeNode(folder_path, << parts[k] >>, "folder", None, None,
                                     Meta(None, None, None, Some(folder_path.f)))
         IN EnsureFolders(IF folder_path \in DOMAIN ns THEN ns
                          ELSE AddChild(ns, parent_id, folder_node),
                          parts, k + 1)

\* Mutant of AddSymbols: every symbol is attached to the file node.
RECURSIVE AddSymbolsFlat(_, _, _, _, _)
AddSymbolsFlat(ns, p, file, recs, class_ids) ==
    IF recs = << >> THEN ns
    ELSE LET rec == Head(recs)
             src == GetSourceWithContext(p, rec, 0, 0)
             node == CodeNode(Id(file, rec.qualname), rec.qualname, rec.kind, Some(src), None,
                              SymbolMeta(file, rec))
         IN AddSymbolsFlat(AddChild(ns, Id(file, << >>), node), p, file, Tail(recs), class_ids)

\* Step 3: the class and function nodes of a file, in the order of its table.
RECURSIVE AddSymbols(_, _, _, _, _)
AddSymbols(ns, p, file, recs, class_ids) ==
    IF recs = << >> THEN ns
    ELSE LET rec == Head(recs)
             node_id == Id(file, rec.qualname)
             file_id == Id(file, << >>)
             src == GetSourceWithContext(p, rec, 0, 0)
             node == CodeNode(node_id, rec.qualname, rec.kind, Some(src), None,
                              SymbolMeta(file, rec))
             cls_name == Front(rec.qualname)
             parent_id == IF rec.kind = "method" /\ cls_name \in class_ids
                          THEN Id(file, cls_name) ELSE file_id
         IN AddSymbols(AddChild(ns, parent_id, node), p, file, Tail(recs),
                       IF rec.kind = "class" THEN class_ids \cup {rec.qualname}
                       ELSE class_ids)

RECURSIVE BuildFiles(_, _, _)
BuildFiles(ns, p, files) ==
    IF files = << >> THEN ns
    ELSE LET file == Head(files)
             file_id == Id(file, << >>)
             n1 == EnsureFolders(ns, file, 1)
             parent_id == IF Len(file) = 1 THEN RootId ELSE Id(Front(file), << >>)
             file_node == CodeNode(file_id, << Last(file) >>, "file",
                                   Some(DictGet(p.sources, file)), None,
                                   Meta(Some(file), None, None, None))
             n2 == AddChild(n1, parent_id, file_node)
             n3 == AddSymbols(n2, p, file, DictGet(p.index, file), {})
         IN BuildFiles(n3, p, Tail(files))

BuildFromParserWithFolder(ns, p) == BuildFiles(ns, p, DictKeys(p.index))

\* ------------------------------------------------- _rebuild_file_branch
RECURSIVE ReattachSymbols(_, _, _, _)
ReattachSymbols(ns, p, file, recs) ==
    IF recs = << >> THEN ns
    ELSE LET rec == Head(recs)
             node_id == Id(file, rec.qualname)
             file_id == Id(file, << >>)
             src == IF rec.kind = "class" THEN GetSource(p, rec)
                    ELSE GetSourceWithContext(p, rec, 0, 0)
             node == CodeNode(node_id, rec.qualname, rec.kind, Some(src), None,
                              SymbolMeta(file, rec))
             cls_id == Id(file, Front(rec.qualname))
             parent_id == IF rec.kind = "method" /\ cls_id \in DOMAIN ns
                          THEN cls_id ELSE file_id
         IN ReattachSymbols(AddChild(ns, parent_id, node), p, file, Tail(recs))

\* The nodes after the rebuild, or the exception add_child raises.
RebuildFileBranch(ns, p, file) ==
    LET file_id == Id(file, << >>)
        to_delete == {nid \in DOMAIN ns : nid.f = file /\ nid.q # << >>}
        kept == [nid \in DOMAIN ns \ to_delete |-> ns[nid]]
        recs == DictGet(p.index, file)
    IN IF recs # << >> /\ file_id \notin DOMAIN kept
       THEN [raised |-> Some("KeyError"), nodes |-> kept]
       ELSE [raised |-> None, nodes |-> ReattachSymbols(kept, p, file, recs)]

\* --------------------------------------- CodeSemanticTree.edit_symbol
\* The default before=2, after=2 of get_source_with_context.
DefaultBefore == 2
DefaultAfter == 2

TreeEditSymbol(ns, p, file, symbol_path, relative_line, new_code, mode) ==
    LET o == ParserEditSymbol(p, file, symbol_path, relative_line, new_code, mode)
        file_id == Id(file, << >>)
        target_id == Id(file, symbol_path)
        n1 == IF file_id \in DOMAIN ns
              THEN SetSource(ns, file_id, DictGet(o.parser.sources, file))
              ELSE ns
        rb == RebuildFileBranch(n1, o.parser, file)
    IN IF o.raised # None
       THEN [raised |-> o.raised, parser_raised |-> o.raised, parser |-> o.parser,
             nodes |-> ns]
       ELSE IF target_id \in DOMAIN n1
       THEN [raised |-> None, parser_raised |-> None, parser |-> o.parser,
             nodes |-> SetSource(n1, target_id,
                          GetSourceWithContext(o.parser, o.rec[1], DefaultBefore, DefaultAfter))]
       ELSE [raised |-> rb.raised, parser_raised |-> None, parser |-> o.parser,
             nodes |-> rb.nodes]

\* ------------------------------------------------------ collect_context
\* In the trees handed to collect_context a str is the sequence of its
\* characters, so that len, strip and the slice are what Python computes.
MaxChars == 32000

Whitespace == {" ", "\n", "\t"}

RECURSIVE LStrip(_)
LStrip(s) == IF s # << >> /\ Head(s) \in Whitespace THEN LStrip(Tail(s)) ELSE s

RECURSIVE RStrip(_)
RStrip(s) == IF s # << >> /\ s[Len(s)] \in Whitespace THEN RStrip(Front(s)) ELSE s

StrStrip(s) == RStrip(LStrip(s))

RECURSIVE Join(_, _)
Join(sep, blocks) ==
    IF blocks = << >> THEN << >>
    ELSE IF Len(blocks) = 1 THEN blocks[1]
    ELSE blocks[1] \o sep \o Join(sep, Tail(blocks))

\* `if self.source:` -- set and not the empty string.
Truthy(opt) == opt # None /\ opt[1] # << >>

\* CodeNode.text_for_completion
TextForCompletion(node, include, max_chars) ==
    LET src == IF Truthy(node.source) THEN << node.source[1] >> ELSE << >>
        sum == IF Truthy(node.summary) THEN << node.summary[1] >> ELSE << >>
        blocks == CASE include = "best" -> IF src # << >> THEN src ELSE sum
                    [] include = "both" -> sum \o src
                    [] include = "summary" -> sum
                    [] include = "source" -> src
                    [] OTHER -> << >>
        out == StrStrip(Join(<< "\n" >>, blocks))
    IN SubSeq(out, 1, Min(Len(out), max_chars))

\* CodeSemanticTree._approx_tokens
ApproxTokens(text) == IF text = << >> THEN 0 ELSE Max(1, Len(text) \div 4)

\* CodeSemanticTree.ancestors: root first.
RECURSIVE Ancestors(_, _)
Ancestors(ns, nid) ==
    LET cur == ns[nid].parent
    IN IF cur = None THEN << >> ELSE Append(Ancestors(ns, cur[1]), cur[1])

\* The arguments of a collect_context call, score_fn given by its values.
CollectArgs(token_budget, include_order, include_mode, scores) ==
    [token_budget |-> token_budget, include_order |-> include_order,
     include_mode |-> include_mode, scores |-> scores]

\* The locals try_add works on.
Collected(out, used_tokens) == [out |-> out, used_tokens |-> used_tokens]

\* Mutant of TryAdd: the text is added whenever some budget is left, whatever
\* it costs.
TryAddLoose(ns, a, st, nid) ==
    LET text == TextForCompletion(ns[nid], a.include_mode, MaxChars)
        need == ApproxTokens(text)
    IN IF DictHas(st.out, nid) THEN st
       ELSE IF text = << >> THEN st
       ELSE IF st.used_tokens < a.token_budget
       THEN Collected(Append(st.out, << nid, text >>), st.used_tokens + need)
       ELSE st

\* try_add
TryAdd(ns, a, st, nid) ==
    LET text == TextForCompletion(ns[nid], a.include_mode, MaxChars)
        need == ApproxTokens(text)
    IN IF DictHas(st.out, nid) THEN st
       ELSE IF text = << >> THEN st
       ELSE IF st.used_tokens + need <= a.token_budget
       THEN Collected(Append(st.out, << nid, text >>), st.used_tokens + need)
       ELSE st

RemoveAt(s, i) == SubSeq(s, 1, i - 1) \o SubSeq(s, i + 1, Len(s))

\* Mutant of Sorted: the sort without reverse=True.
RECURSIVE SortedAscending(_, _)
SortedAscending(ch, scores) ==
    IF ch = << >> THEN << >>
    ELSE LET i == CHOOSE k \in 1..Len(ch) :
                    /\ \A j \in 1..Len(ch) : scores[ch[j]] >= scores[ch[k]]
                    /\ \A j \in 1..(k - 1) : scores[ch[j]] > scores[ch[k]]
         IN << ch[i] >> \o SortedAscending(RemoveAt(ch, i), scores)

\* sorted(ch, key=lambda cid: scores[cid], reverse=True): the sort is stable,
\* so among the children of the greatest score the first stored comes first.
RECURSIVE Sorted(_, _)
Sorted(ch, scores) ==
    IF ch = << >> THEN << >>
    ELSE LET i == CHOOSE k \in 1..Len(ch) :
                    /\ \A j \in 1..Len(ch) : scores[ch[j]] <= scores[ch[k]]
                    /\ \A j \in 1..(k - 1) : scores[ch[j]] < scores[ch[k]]
         IN << ch[i] >> \o Sorted(RemoveAt(ch, i), scores)

\* sorted_children
SortedChildren(ns, a, nid) == Sorted(ns[nid].children, a.scores)

Attempt(cat, nid) == [cat |-> cat, nid |-> nid]

\* The try_add calls of one iteration of the loop, in the order the four
\* `if ... in include_order` blocks make them.
Attempts(ns, a, nid) ==
    LET In(c) == \E i \in 1..Len(a.include_order) : a.include_order[i] = c
        Each(cat, ids) == [i \in 1..Len(ids) |-> Attempt(cat, ids[i])]
        Other(sib) == sib # nid
        p == ns[nid].parent
    IN (IF In("ancestors") THEN Each("ancestors", Ancestors(ns, nid)) ELSE << >>)
       \o (IF In("self") THEN Each("self", << nid >>) ELSE << >>)
       \o (IF In("siblings") /\ p # None
           THEN Each("siblings", SelectSeq(ns[p[1]].children, Other)) ELSE << >>)
       \o (IF In("children") THEN Each("children", SortedChildren(ns, a, nid)) ELSE << >>)

RECURSIVE TryAddAll(_, _, _, _)
TryAddAll(ns, a, st, attempts) ==
    IF attempts = << >> THEN st
    ELSE TryAddAll(ns, a, TryAdd(ns, a, st, Head(attempts).nid), Tail(attempts))

\* ------------------------------------------------------- JSON export/import
\* CodeNode.to_dict: a dict whose "source" key is present only for a source
\* that is set and not empty; "summary" holds the Optional itself.
ToDict(node, include_source) ==
    LET data == << << "id", node.id >>, << "name", node.name >>, << "kind", node.kind >>,
                   << "summary", node.summary >>, << "children", << >> >>,
                   << "meta", node.meta >> >>
    IN IF include_source /\ Truthy(node.source)
       THEN DictSet(data, "source", node.source)
       ELSE data

\* to_json's build_subtree
RECURSIVE ToJsonSubtree(_, _, _)
ToJsonSubtree(ns, nid, include_source) ==
    DictSet(ToDict(ns[nid], include_source), "children",
            [i \in 1..Len(ns[nid].children) |->
                ToJsonSubtree(ns, ns[nid].children[i], include_source)])

\* json.dumps: None is written as null, a str as a string, the children as an
\* array of objects; ids, names, kinds and meta are written as they are.
JsonNull == [json |-> "null"]
JsonString(s) == [json |-> "string", v |-> s]

RECURSIVE JsonDumps(_)
JsonDumps(data) ==
    [i \in 1..Len(data) |->
        LET k == data[i][1]
            v == data[i][2]
        IN IF k \in {"summary", "source"}
           THEN << k, IF v = None THEN JsonNull ELSE JsonString(v[1]) >>
           ELSE IF k = "children"
           THEN << k, [j \in 1..Len(v) |-> JsonDumps(v[j])] >>
           ELSE data[i]]

\* json.loads
RECURSIVE JsonLoads(_)
JsonLoads(text) ==
    [i \in 1..Len(text) |->
        LET k == text[i][1]
            v == text[i][2]
        IN IF k \in {"summary", "source"}
           THEN << k, IF v.json = "null" THEN None ELSE Some(v.v) >>
           ELSE IF k = "children"
           THEN << k, [j \in 1..Len(v) |-> JsonLoads(v[j])] >>
           ELSE text[i]]

\* CodeSemanticTree.to_json
ToJson(ns, include_source) == JsonDumps(ToJsonSubtree(ns, RootId, include_source))

\* dict.get(key) with None for a missing key
GetOrNone(d, k) == IF DictHas(d, k) THEN DictGet(d, k) ELSE None

NoNodes == [nid \in {} |-> None]

\* create_from_dict's build_subtree: the node is stored under its id, then each
\* child dict is built and attached with CodeNode.add_child.
RECURSIVE FromSubtree(_, _)
RECURSIVE AttachChildren(_, _, _)
FromSubtree(ns, node_dict) ==
    LET id == DictGet(node_dict, "id")
        node == CodeNode(id, DictGet(node_dict, "name"), DictGet(node_dict, "kind"),
                         GetOrNone(node_dict, "source"), GetOrNone(node_dict, "summary"),
                         DictGet(node_dict, "meta"))
    IN AttachChildren((id :> node) @@ ns, id, DictGet(node_dict, "children"))

AttachChildren(ns, id, child_dicts) ==
    IF child_dicts = << >> THEN ns
    ELSE LET cid == DictGet(Head(child_dicts), "id")
             n1 == FromSubtree(ns, Head(child_dicts))
             n2 == [n1 EXCEPT ![id].children = Append(@, cid), ![cid].parent = Some(id)]
         IN AttachChildren(n2, id, Tail(child_dicts))

\* CodeSemanticTree.create_from_dict
CreateFromDict(data) ==
    LET ns == FromSubtree(NoNodes, data)
        root_id == DictGet(data, "id")
    IN IF root_id # RootId THEN (RootId :> ns[root_id]) @@ ns ELSE ns

\* create_from_json on the text to_json wrote
CreateFromJson(text) == CreateFromDict(JsonLoads(text))

\* ---------------------------------------------------- build_from_parser
\* The build without folders: every file node is a child of the root.
RECURSIVE BuildFlat(_, _, _)
BuildFlat(ns, p, files) ==
    IF files = << >> THEN ns
    ELSE LET file == Head(files)
             file_id == Id(file, << >>)
             file_node == CodeNode(file_id, << Last(file) >>, "file",
                                   Some(DictGet(p.sources, file)), None,
                                   Meta(Some(file), None, None, None))
             n1 == AddChild(ns, RootId, file_node)
             n2 == AddSymbols(n1, p, file, DictGet(p.index, file), {})
         IN BuildFlat(n2, p, Tail(files))

BuildFromParser(ns, p) == BuildFlat(ns, p, DictKeys(p.index))

\* ------------------------------------------------- ProjectParser.resolve
\* The symbol_path a caller passes is a str: here the sequence of its pieces,
\* a name, a dot or a blank each being one piece.  The key of a record is its
\* qualified name joined with dots.
Dotted(q) == Join(<< "." >>, [i \in 1..Len(q) |-> << q[i] >>])

\* What resolve gave: the exception it raised or the record it returned.
Resolved(file, symbol_path, raised, value) ==
    [file |-> file, symbol_path |-> symbol_path, raised |-> raised, value |-> value]
NoResolve == Resolved(<< >>, << >>, None, None)

HasKey(recs, key) == \E i \in 1..Len(recs) : Dotted(recs[i].qualname) = key
AtKey(recs, key) == recs[CHOOSE i \in 1..Len(recs) : Dotted(recs[i].qualname) = key]

\* KeyError(message); `available` is the names the message lists, sorted, so
\* it is given by their set.
KeyError(message, available) ==
    [type |-> "KeyError", message |-> message, available |-> available]

\* Mutant of Resolve: only the blanks in front are removed for the retry.
ResolveLoose(p, file, symbol_path) ==
    IF ~DictHas(p.index, file)
    THEN Resolved(file, symbol_path, Some(KeyError("File not indexed", {})), None)
    ELSE LET recs == DictGet(p.index, file)
             key == LStrip(symbol_path)
         IN IF HasKey(recs, symbol_path)
            THEN Resolved(file, symbol_path, None, Some(AtKey(recs, symbol_path)))
            ELSE IF HasKey(recs, key)
            THEN Resolved(file, symbol_path, None, Some(AtKey(recs, key)))
            ELSE Resolved(file, symbol_path,
                          Some(KeyError("Symbol not found",
                                        {Dotted(recs[i].qualname) : i \in 1..Len(recs)})),
                          None)

Resolve(p, file, symbol_path) ==
    IF ~DictHas(p.index, file)
    THEN Resolved(file, symbol_path, Some(KeyError("File not indexed", {})), None)
    ELSE LET recs == DictGet(p.index, file)
             key == StrStrip(symbol_path)
         IN IF HasKey(recs, symbol_path)
            THEN Resolved(file, symbol_path, None, Some(AtKey(recs, symbol_path)))
            ELSE IF HasKey(recs, key)
            THEN Resolved(file, symbol_path, None, Some(AtKey(recs, key)))
            ELSE Resolved(file, symbol_path,
                          Some(KeyError("Symbol not found",
                                        {Dotted(recs[i].qualname) : i \in 1..Len(recs)})),
                          None)

\* ---------------------------------------------------- generate_summary
Reverse(s) == [i \in 1..Len(s) |-> s[Len(s) + 1 - i]]

\* iter_dfs: the stack's top is its last element; children are pushed in
\* reverse so that they are popped left to right.
RECURSIVE IterDfs(_, _)
IterDfs(ns, stack) ==
    IF stack = << >> THEN << >>
    ELSE LET nid == Last(stack)
         IN << nid >> \o IterDfs(ns, Front(stack) \o Reverse(ns[nid].children))

IsLeaf(node) == Len(node.children) = 0

\* order = list(self.iter_dfs("root"))[::-1]
SummaryOrder(ns) == Reverse(IterDfs(ns, << RootId >>))

\* work_nodes: the nodes of the order that have children.
RECURSIVE WorkNodes(_, _)
WorkNodes(ns, order) ==
    IF order = << >> THEN << >>
    ELSE (IF IsLeaf(ns[Head(order)]) THEN << >> ELSE << Head(order) >>)
         \o WorkNodes(ns, Tail(order))

\* max(child_heights) with height.get(cid, 0)
RECURSIVE MaxChildHeight(_, _)
MaxChildHeight(height, children) ==
    IF children = << >> THEN 0
    ELSE Max(IF Head(children) \in DOMAIN height THEN height[Head(children)] ELSE 0,
             MaxChildHeight(height, Tail(children)))

\* The loop that fills `height` along the order; the dict is a function.
RECURSIVE Heights(_, _, _)
Heights(ns, order, height) ==
    IF order = << >> THEN height
    ELSE LET nid == Head(order)
             h == IF IsLeaf(ns[nid]) THEN 0
                  ELSE 1 + MaxChildHeight(height, ns[nid].children)
         IN Heights(ns, Tail(order),
                    [n \in DOMAIN height \cup {nid} |-> IF n = nid THEN h ELSE height[n]])

NoHeights == [n \in {} |-> 0]
HeightOf(ns) == Heights(ns, SummaryOrder(ns), NoHeights)

\* levels[depth]: the work nodes of that height.  They are appended in the
\* order of work_nodes and sorted by their place in `order`, which is the
\* order they already have.
RECURSIVE Level(_, _, _)
Level(work_nodes, height, depth) ==
    IF work_nodes = << >> THEN << >>
    ELSE (IF height[Head(work_nodes)] = depth THEN << Head(work_nodes) >> ELSE << >>)
         \o Level(Tail(work_nodes), height, depth)

\* sorted(levels.keys()) from `depth` on: the heights that have work nodes.
LevelKeys(ns) ==
    LET height == HeightOf(ns)
        work == WorkNodes(ns, SummaryOrder(ns))
    IN {height[work[i]] : i \in 1..Len(work)}

\* The dict levels.
Levels(ns) ==
    [d \in LevelKeys(ns) |-> Level(WorkNodes(ns, SummaryOrder(ns)), HeightOf(ns), d)]

\* text_for_completion is asked for at most this many characters.
ChildTextChars == 8000

\* f"{child.name}: {child.summary}" or f"{child.name}: {child.text_for_completion(...)}"
ChildLine(child, include_source_in_leaf) ==
    child.name \o << ": " >> \o
        (IF Truthy(child.summary) THEN child.summary[1]
         ELSE TextForCompletion(child, IF include_source_in_leaf THEN "source" ELSE "best",
                                ChildTextChars))

\* _gather_child_text
GatherChildText(ns, node, include_source_in_leaf) ==
    Join(<< "\n" >>,
         [i \in 1..Len(node.children) |->
             ChildLine(ns[node.children[i]], include_source_in_leaf)])

\* What summarize_fn does with a text: it returns a summary made from the
\* text ("ok"), returns the empty string ("empty"), returns None as
\* llm_summarize does when the request fails ("none"), raises ("raise"), or
\* never returns ("hang").
SummarizerBehaviours == {"ok", "empty", "none", "raise", "hang"}

SummarizeFn(behaviour, text) ==
    CASE behaviour = "ok" -> Some(<< "summary of" >> \o text)
      [] behaviour = "empty" -> Some(<< >>)
      [] OTHER -> None

\* _execute: (nid, summary, error)
Executed(nid, summary, error) == [nid |-> nid, summary |-> summary, error |-> error]

\* Mutant of Execute: the exception is handed back as if it were the summary.
ExecuteLeaky(behaviour, nid, text) ==
    IF behaviour = "raise" THEN Executed(nid, Some(<< "Exception" >>), None)
    ELSE Executed(nid, SummarizeFn(behaviour, text), None)

Execute(behaviour, nid, text) ==
    IF behaviour = "raise" THEN Executed(nid, None, Some("Exception"))
    ELSE Executed(nid, SummarizeFn(behaviour, text), None)

\* A future of the executor: the call submitted and how far it is.
Future(nid, text, state, value) == [nid |-> nid, text |-> text, state |-> state, value |-> value]

\* The arguments of a generate_summary call; summarize_fn is given by how it
\* behaves on the text of each node.
SummaryArgs(summarize_fn, include_source_in_leaf, max_workers) ==
    [summarize_fn |-> summarize_fn, include_source_in_leaf |-> include_source_in_leaf,
     max_workers |-> max_workers]

\* ------------------------------------------------------------ the state
VARIABLES
    index,      \* ProjectParser._index: file -> symbol table
    sources,    \* ProjectParser._sources: file -> text
    modules,    \* ProjectParser._modules: file -> parsed module
    nodes,      \* CodeSemanticTree.nodes: id -> CodeNode
    phase,      \* "new", "indexed" (build_index done), "built" (tree built)
    edits,      \* number of edit_symbol calls that changed the caches
    last,       \* the last call: its arguments, what parser.edit_symbol raised in
                \* it, what the call itself raised, whether it changed anything
    pc,         \* collect_context: "idle", "loop" (in the while loop), "returned"
    cc_args,    \* collect_context: the arguments of the call
    frontier,   \* collect_context: the local list frontier
    visited,    \* collect_context: the local set visited
    out,        \* collect_context: the local dict out, the value returned
    used_tokens, \* collect_context: the local used_tokens
    popped,     \* the nodes the loop has processed, in order
    attempts,   \* the try_add calls of the last iteration, in order
    disk,       \* the project directory: file -> what the file holds
    writes,     \* number of files written since the parser was made
    result,     \* the last resolve call: its arguments and what it gave
    gs_pc,      \* generate_summary: "idle", "submit" (in the loop that submits a
                \* level), "wait" (in the as_completed loop), "returned"
    gs_args,    \* generate_summary: the arguments of the call
    levels,     \* generate_summary: the local dict levels, height -> work nodes
    depth,      \* generate_summary: the level being worked on
    cursor,     \* generate_summary: the place in levels[depth] of the next node
    futures,    \* generate_summary: the futures of the level, as submitted
    pbar        \* generate_summary: the nodes pbar.update(1) was called for, in
                \* order; the bar shows their number

\* The parser and the edit bookkeeping; the state of a collect_context call.
parser_vars == << index, sources, modules, phase, edits, last >>
cc_vars == << pc, cc_args, frontier, visited, out, used_tokens, popped, attempts >>

\* The directory and the queries made on the parser.
env_vars == << disk, writes, result >>

\* The state of a generate_summary call.
gs_vars == << gs_pc, gs_args, levels, depth, cursor, futures, pbar >>

vars == << index, sources, modules, nodes, phase, edits, last,
           pc, cc_args, frontier, visited, out, used_tokens, popped, attempts,
           disk, writes, result, gs_pc, gs_args, levels, depth, cursor, futures, pbar >>

Call(op, file, symbol_path, relative_line, new_code, mode, parser_raised, raised, changed) ==
    [op |-> op, file |-> file, symbol_path |-> symbol_path,
     relative_line |-> relative_line, new_code |-> new_code, mode |-> mode,
     parser_raised |-> parser_raised, raised |-> raised, changed |-> changed]
NoCode == NewCode(TRUE, << >>)
NoCall == Call("none", << >>, << >>, 0, NoCode, "", None, None, FALSE)

\* No generate_summary call made yet.
NoSummary ==
    /\ gs_pc = "idle"
    /\ gs_args = SummaryArgs(<< >>, TRUE, 0)
    /\ levels = << >>
    /\ depth = 0
    /\ cursor = 0
    /\ futures = << >>
    /\ pbar = << >>

\* No collect_context call made yet.
NoCollect ==
    /\ pc = "idle"
    /\ cc_args = CollectArgs(0, << >>, "best", << >>)
    /\ frontier = << >>
    /\ visited = {}
    /\ out = << >>
    /\ used_tokens = 0
    /\ popped = << >>
    /\ attempts = << >>

\* ---------------------------------------------------------- the inputs
CodeX == NewCode(TRUE, << Simple("x = 1") >>)
CodeYZ == NewCode(TRUE, << Simple("y = 2"), Simple("z = 3") >>)
CodeG == NewCode(TRUE, << FunctionDef("g", << Simple("pass") >>) >>)
CodeBad == NewCode(FALSE, << >>)

EditArgs(file, symbol_path, relative_line, new_code, mode) ==
    [file |-> file, symbol_path |-> symbol_path, relative_line |-> relative_line,
     new_code |-> new_code, mode |-> mode]

\* The calls explored: every line and both modes on the nested function a.py::f,
\* fewer on the other symbols, and one call for each way of failing.
Product(file, symbol_path, lines, codes, modes) ==
    { EditArgs(file, symbol_path, r, c, m) : r \in lines, c \in codes, m \in modes }

EditCalls ==
    Product(FileA, << "f" >>, 0..MaxRel, {CodeYZ, CodeG}, {"insert"})
    \cup Product(FileA, << "f" >>, 0..MaxRel, {CodeYZ}, {"replace"})
    \cup Product(FileA, << "C", "m" >>, 0..1, {CodeX}, {"insert", "replace"})
    \cup Product(FileA, << "C" >>, {0}, {CodeX}, {"insert"})
    \cup Product(FileA, << "g" >>, {0}, {CodeX}, {"insert", "replace"})
    \cup Product(FileB, << "f" >>, 0..1, {CodeX}, {"insert", "replace"})
    \cup Product(FileT, << "t" >>, 0..2, {CodeX}, {"insert"})
    \cup { EditArgs(FileA, << "f" >>, 0, CodeX, "append"),
           EditArgs(FileA, << "C" >>, 0, CodeX, "append"),
           EditArgs(FileA, << "f" >>, 0, CodeBad, "insert"),
           EditArgs(FileX, << "f" >>, 0, CodeX, "insert"),
           EditArgs(FileE, << "f" >>, 0, CodeX, "insert"),
           EditArgs(FileT, << "g" >>, 0, CodeX, "insert") }

\* ------------------------------------------------------------ the actions
Init ==
    /\ index = << >>
    /\ sources = << >>
    /\ modules = << >>
    /\ nodes = FreshNodes
    /\ phase = "new"
    /\ edits = 0
    /\ last = NoCall
    /\ NoCollect
    /\ disk = Disk
    /\ writes = 0
    /\ result = NoResolve
    /\ NoSummary

\* parser.build_index(include_tests=...)
BuildIndex ==
    /\ phase \in {"new", "indexed"}
    /\ \E include_tests \in BOOLEAN :
       \E q \in { BuildIndexOp(disk, Parser(index, sources, modules), include_tests) } :
            /\ index' = q.index
            /\ sources' = q.sources
            /\ modules' = q.modules
            /\ last' = Call("build_index", << >>, << >>, 0, NoCode,
                            IF include_tests THEN "include_tests" ELSE "no_tests", None, None,
                            phase = "new" \/ q # Parser(index, sources, modules))
    /\ phase' = "indexed"
    /\ UNCHANGED << nodes, edits >>
    /\ UNCHANGED cc_vars
    /\ UNCHANGED gs_vars
    /\ UNCHANGED << disk, writes >>
    /\ result' = NoResolve

\* tree.build_from_parser_with_folder(parser) on the fresh tree
BuildTree ==
    /\ phase = "indexed"
    /\ nodes' = BuildFromParserWithFolder(nodes, Parser(index, sources, modules))
    /\ last' = Call("build_from_parser_with_folder", << >>, << >>, 0, NoCode, "", None, None, TRUE)
    /\ phase' = "built"
    /\ UNCHANGED << index, sources, modules, edits >>
    /\ UNCHANGED cc_vars
    /\ UNCHANGED gs_vars
    /\ UNCHANGED << disk, writes >>
    /\ result' = NoResolve

\* tree.edit_symbol(...), which calls parser.edit_symbol(...) with the same
\* arguments and then resyncs the tree.  A call that changed neither a cache
\* nor a node leaves the program in the state it was called in, where every
\* call is explored already, so no further call is explored after it.
TreeEdit ==
    /\ phase = "built"
    /\ edits < MaxEdits
    /\ last.changed
    /\ \E a \in EditCalls :
       \E o \in { TreeEditSymbol(nodes, Parser(index, sources, modules), a.file,
                                 a.symbol_path, a.relative_line, a.new_code, a.mode) } :
            /\ index' = o.parser.index
            /\ sources' = o.parser.sources
            /\ modules' = o.parser.modules
            /\ nodes' = o.nodes
            /\ last' = Call("tree.edit_symbol", a.file, a.symbol_path,
                            a.relative_line, a.new_code, a.mode, o.parser_raised, o.raised,
                            o.parser # Parser(index, sources, modules) \/ o.nodes # nodes)
            /\ edits' = IF o.parser = Parser(index, sources, modules) THEN edits ELSE edits + 1
    /\ UNCHANGED phase
    /\ UNCHANGED cc_vars
    /\ UNCHANGED gs_vars
    /\ UNCHANGED env_vars

Next == BuildIndex \/ BuildTree \/ TreeEdit

Spec == Init /\ [][Next]_vars

\* ================================================= the collect_context calls
\* ------------------------------------------------------------------ bounds
\* Largest token_budget a caller passes.
MaxBudget == 4
\* Largest value score_fn returns; the default score_fn returns 0.0 or 1.0.
MaxScore == 1

\* ---------------------------------------------------------- the inputs
Str(n) == [i \in 1..n |-> "a"]

NodeA == Id(<< "a.py" >>, << >>)
NodeF == Id(<< "a.py" >>, << "f" >>)
NodeG == Id(<< "a.py" >>, << "g" >>)
NodeB == Id(<< "b.py" >>, << >>)
NodeC == Id(<< "c.py" >>, << >>)

\* A tree with a summary on the root, a file with summary and source and two
\* functions (one holding blanks only), an empty file with a summary, and a
\* file with neither text.
TreeWide ==
    LET n0 == SetSummary(FreshNodes, RootId, Str(2))
        n1 == AddChild(n0, RootId,
                       CodeNode(NodeA, << "a.py" >>, "file", Some(Str(9)), Some(Str(3)), NoMeta))
        n2 == AddChild(n1, NodeA,
                       CodeNode(NodeF, << "f" >>, "function", Some(Str(4)), None, NoMeta))
        n3 == AddChild(n2, NodeA,
                       CodeNode(NodeG, << "g" >>, "function", Some(<< " ", " " >>), None, NoMeta))
        n4 == AddChild(n3, RootId,
                       CodeNode(NodeB, << "b.py" >>, "file", Some(<< >>), Some(Str(4)), NoMeta))
    IN AddChild(n4, RootId, CodeNode(NodeC, << "c.py" >>, "file", None, None, NoMeta))

\* The shape _rebuild_file_branch leaves: a node attached to its parent again
\* under the id it had, so the parent lists the id twice.
TreeTwice ==
    LET a == CodeNode(NodeA, << "a.py" >>, "file", Some(Str(8)), None, NoMeta)
        f == CodeNode(NodeF, << "f" >>, "function", Some(Str(4)), None, NoMeta)
        n1 == AddChild(AddChild(FreshNodes, RootId, a), NodeA, f)
        n2 == AddChild(n1, RootId,
                       CodeNode(NodeB, << "b.py" >>, "file", Some(Str(5)), None, NoMeta))
    IN AddChild(AddChild(n2, RootId, a), NodeA, f)

CollectTrees == {TreeWide, TreeTwice}

IncludeOrders ==
    { << "ancestors", "self", "siblings", "children" >>,
      << "children", "self" >>,
      << "siblings", "ancestors" >>,
      << "self" >>,
      << >> }

IncludeModes == {"best", "both", "summary", "source"}

\* The values of a score_fn on the nodes; the root's score is never compared.
ScoreFns(ns) == { s \in [DOMAIN ns -> 0..MaxScore] : s[RootId] = 0 }

\* ------------------------------------------------------------ the actions
\* A tree with no parser behind it, as CodeSemanticTree(tree_path=...) gives.
InitCollect ==
    /\ index = << >>
    /\ sources = << >>
    /\ modules = << >>
    /\ nodes \in CollectTrees
    /\ phase = "loaded"
    /\ edits = 0
    /\ last = NoCall
    /\ NoCollect
    /\ disk = << >>
    /\ writes = 0
    /\ result = NoResolve
    /\ NoSummary

\* collect_context(query, token_budget, include_order, include_mode, score_fn)
\* up to the loop
CollectContext ==
    /\ pc = "idle"
    /\ \E b \in 0..MaxBudget, o \in IncludeOrders, m \in IncludeModes, s \in ScoreFns(nodes) :
            cc_args' = CollectArgs(b, o, m, s)
    /\ frontier' = << RootId >>
    /\ visited' = {}
    /\ out' = << >>
    /\ used_tokens' = 0
    /\ popped' = << >>
    /\ attempts' = << >>
    /\ pc' = "loop"
    /\ UNCHANGED << nodes, parser_vars, env_vars, gs_vars >>

\* One iteration of `while frontier and used_tokens < token_budget`.
LoopIteration ==
    /\ pc = "loop"
    /\ frontier # << >> /\ used_tokens < cc_args.token_budget
    /\ LET nid == Head(frontier)
           todo == Attempts(nodes, cc_args, nid)
           st == TryAddAll(nodes, cc_args, Collected(out, used_tokens), todo)
       IN IF nid \in visited
          THEN /\ frontier' = Tail(frontier)
               /\ attempts' = << >>
               /\ UNCHANGED << visited, out, used_tokens, popped >>
          ELSE /\ visited' = visited \cup {nid}
               /\ popped' = Append(popped, nid)
               /\ attempts' = todo
               /\ out' = st.out
               /\ used_tokens' = st.used_tokens
               /\ frontier' = SortedChildren(nodes, cc_args, nid) \o Tail(frontier)
    /\ UNCHANGED << pc, cc_args, nodes, parser_vars, env_vars, gs_vars >>

\* The loop condition fails: return out.
Return ==
    /\ pc = "loop"
    /\ ~(frontier # << >> /\ used_tokens < cc_args.token_budget)
    /\ pc' = "returned"
    /\ UNCHANGED << cc_args, frontier, visited, out, used_tokens, popped, attempts,
                    nodes, parser_vars, env_vars, gs_vars >>

NextCollect == CollectContext \/ LoopIteration \/ Return

SpecCollect == InitCollect /\ [][NextCollect]_vars

\* ============================================ indexing a changing directory
\* ------------------------------------------------------------------ bounds
\* Number of files written to the directory after the parser is made.
MaxWrites == 1

\* ---------------------------------------------------------- the inputs
FileU == << "u.py" >>
FileDup == << "pkg", "dup.py" >>
FileD == << "pkg", "sub", "d.py" >>
FileR == << "root", "r.py" >>

\* f is declared as a class with a method, again as a function, and again as
\* a function nested in g.
ModDup == << ClassDef("f", << FunctionDef("m", << Simple("pass") >>) >>),
             FunctionDef("f", << Simple("pass") >>),
             FunctionDef("g", << FunctionDef("f", << Simple("return") >>) >>) >>
\* A class in a class, a function in a method, a function in an if block.
ModNest == << ClassDef("C", << ClassDef("D", << FunctionDef("m", << Simple("pass") >>) >>),
                              FunctionDef("n", << FunctionDef("h", << Simple("pass") >>) >>) >>),
              If("c", << FunctionDef("k", << Simple("pass") >>) >>, << >>) >>
\* A function, and a class whose method is written on one line.
ModR == << FunctionDef("r", << Simple("pass") >>),
           ClassDef("K", << OneLineDef("s") >>) >>

\* Another directory: an unreadable file, folders two deep, a folder named
\* root.
DiskDeep == << << FileU, DiskFile(FALSE, FALSE, << >>) >>,
               << FileDup, DiskFile(TRUE, TRUE, ModDup) >>,
               << FileD, DiskFile(TRUE, TRUE, ModNest) >>,
               << FileR, DiskFile(TRUE, TRUE, ModR) >> >>

ProjectDisks == {Disk, DiskDeep}

\* What a write leaves in a file: text that does not parse, or another module.
Written == {DiskFile(TRUE, FALSE, << >>), DiskFile(TRUE, TRUE, ModR), DiskFile(TRUE, TRUE, ModDup)}

\* The symbol paths asked for: names as stored, names with blanks around
\* them, a blank inside a name, a name no file has, and blanks alone.
SymbolPaths ==
    { << "f" >>, << " ", "f" >>, << "f", "\n" >>, << "C", ".", "m" >>,
      << " ", "C", ".", "m", " " >>, << "C", ".", " ", "m" >>, << "t", " " >>,
      << "zz" >>, << " " >>, << >> }

\* ------------------------------------------------------------ the actions
InitProject ==
    /\ index = << >>
    /\ sources = << >>
    /\ modules = << >>
    /\ nodes = FreshNodes
    /\ phase = "new"
    /\ edits = 0
    /\ last = NoCall
    /\ NoCollect
    /\ disk \in ProjectDisks
    /\ writes = 0
    /\ result = NoResolve
    /\ NoSummary

\* Some program writes a readable file of the directory.
WriteFile ==
    /\ phase \in {"new", "indexed"}
    /\ writes < MaxWrites
    /\ \E file \in {FileA, FileB, FileT, FileDup, FileR}, w \in Written :
            /\ DictHas(disk, file)
            /\ DictGet(disk, file) # w
            /\ disk' = DictSet(disk, file, w)
            /\ last' = Call("write", file, << >>, 0, NoCode, "", None, None, TRUE)
    /\ writes' = writes + 1
    /\ result' = NoResolve
    /\ UNCHANGED << index, sources, modules, nodes, phase, edits >>
    /\ UNCHANGED cc_vars
    /\ UNCHANGED gs_vars

\* tree.build_from_parser(parser) on the fresh tree
BuildTreeFlat ==
    /\ phase = "indexed"
    /\ nodes' = BuildFromParser(nodes, Parser(index, sources, modules))
    /\ last' = Call("build_from_parser", << >>, << >>, 0, NoCode, "", None, None, TRUE)
    /\ phase' = "built"
    /\ UNCHANGED << index, sources, modules, edits >>
    /\ UNCHANGED cc_vars
    /\ UNCHANGED gs_vars
    /\ UNCHANGED << disk, writes >>
    /\ result' = NoResolve

\* parser.resolve(file, symbol_path).  The call changes nothing but `result`,
\* which the next call of another kind forgets, so one resolve is explored
\* from each state.
ResolveCall ==
    /\ result = NoResolve
    /\ \E file \in {FileA, FileT, FileX, FileDup}, symbol_path \in SymbolPaths :
            result' = Resolve(Parser(index, sources, modules), file, symbol_path)
    /\ UNCHANGED << index, sources, modules, nodes, phase, edits, last, disk, writes >>
    /\ UNCHANGED cc_vars
    /\ UNCHANGED gs_vars

NextProject == WriteFile \/ BuildIndex \/ BuildTree \/ BuildTreeFlat \/ ResolveCall

SpecProject == InitProject /\ [][NextProject]_vars

\* ================================================ the generate_summary calls
\* ------------------------------------------------------------------ bounds
\* Largest max_workers a caller passes.
MaxWorkers == 2

\* ---------------------------------------------------------- the inputs
NodeCls == Id(<< "a.py" >>, << "C" >>)
NodeM == Id(<< "a.py" >>, << "C", "m" >>)
NodeH == Id(<< "b.py" >>, << "h" >>)

\* project -> a.py -> (f, C -> C.m), project -> b.py -> h.  The class and
\* b.py have height 1, a.py height 2, the project height 3; b.py has a summary
\* from an earlier pass, the function h has no source text.
TreeDeep ==
    LET n1 == AddChild(FreshNodes, RootId,
                       CodeNode(NodeA, << "a.py" >>, "file", Some(<< "A" >>), None, NoMeta))
        n2 == AddChild(n1, NodeA,
                       CodeNode(NodeF, << "f" >>, "function", Some(<< "F" >>), None, NoMeta))
        n3 == AddChild(n2, NodeA,
                       CodeNode(NodeCls, << "C" >>, "class", Some(<< "K" >>), None, NoMeta))
        n4 == AddChild(n3, NodeCls,
                       CodeNode(NodeM, << "C", ".", "m" >>, "method", Some(<< "M" >>), None, NoMeta))
        n5 == AddChild(n4, RootId,
                       CodeNode(NodeB, << "b.py" >>, "file", Some(<< "B" >>),
                                Some(<< "old" >>), NoMeta))
    IN AddChild(n5, NodeB, CodeNode(NodeH, << "h" >>, "function", None, None, NoMeta))

\* The root alone: no work node.
SummaryTrees == {TreeDeep, TreeWide, FreshNodes}

\* The ways summarize_fn can behave on the work nodes of a tree.
SummarizeFns(ns) ==
    LET work == WorkNodes(ns, SummaryOrder(ns))
    IN [{work[i] : i \in 1..Len(work)} -> SummarizerBehaviours]

\* ------------------------------------------------------------ the actions
InitSummary ==
    /\ index = << >>
    /\ sources = << >>
    /\ modules = << >>
    /\ nodes \in SummaryTrees
    /\ phase = "loaded"
    /\ edits = 0
    /\ last = NoCall
    /\ NoCollect
    /\ disk = << >>
    /\ writes = 0
    /\ result = NoResolve
    /\ NoSummary

\* generate_summary(summarize_fn, include_source_in_leaf, max_workers) up to
\* the loop over the levels
GenerateSummary ==
    /\ gs_pc = "idle"
    /\ \E fn \in SummarizeFns(nodes), leaf \in BOOLEAN, w \in 0..MaxWorkers :
            gs_args' = SummaryArgs(fn, leaf, w)
    /\ \E lv \in { Levels(nodes) } :
          /\ levels' = lv
          /\ IF DOMAIN lv = {}
             THEN gs_pc' = "returned" /\ depth' = 0 /\ cursor' = 0
             ELSE /\ gs_pc' = "submit"
                  /\ depth' = CHOOSE d \in DOMAIN lv : \A e \in DOMAIN lv : d <= e
                  /\ cursor' = 1
    /\ futures' = << >>
    /\ pbar' = << >>
    /\ UNCHANGED << nodes, parser_vars, cc_vars, env_vars >>

\* One iteration of `for nid in levels[depth]`: the text is gathered and the
\* call is submitted, or skipped when the text is blank.
Submit ==
    /\ gs_pc = "submit"
    /\ \E nid \in { levels[depth][cursor] } :
       \E text \in { GatherChildText(nodes, nodes[nid], gs_args.include_source_in_leaf) } :
       \E blank \in { StrStrip(text) = << >> } :
          /\ futures' = IF blank THEN futures
                        ELSE Append(futures, Future(nid, text, "pending", None))
          /\ pbar' = IF blank THEN Append(pbar, nid) ELSE pbar
          /\ cursor' = cursor + 1
          /\ gs_pc' = IF cursor + 1 > Len(levels[depth]) THEN "wait" ELSE "submit"
    /\ UNCHANGED << gs_args, levels, depth, nodes, parser_vars, cc_vars, env_vars >>

\* ThreadPoolExecutor(max_workers=max_workers or 1)
Workers == IF gs_args.max_workers = 0 THEN 1 ELSE gs_args.max_workers

Running == {i \in 1..Len(futures) : futures[i].state = "running"}

\* A free worker thread takes the call that has waited longest.
Start ==
    /\ gs_pc \in {"submit", "wait"}
    /\ Cardinality(Running) < Workers
    /\ \E i \in 1..Len(futures) :
          /\ futures[i].state = "pending"
          /\ \A j \in 1..(i - 1) : futures[j].state # "pending"
          /\ futures' = [futures EXCEPT ![i].state = "running"]
    /\ UNCHANGED << gs_pc, gs_args, levels, depth, cursor, pbar, nodes, parser_vars, cc_vars,
                    env_vars >>

\* _execute returns in a worker thread; a call that hangs never does.
Finish ==
    /\ gs_pc \in {"submit", "wait"}
    /\ \E i \in Running :
          /\ gs_args.summarize_fn[futures[i].nid] # "hang"
          /\ futures' = [futures EXCEPT
                           ![i].state = "done",
                           ![i].value = Some(Execute(gs_args.summarize_fn[futures[i].nid],
                                                     futures[i].nid, futures[i].text))]
    /\ UNCHANGED << gs_pc, gs_args, levels, depth, cursor, pbar, nodes, parser_vars, cc_vars,
                    env_vars >>

\* One iteration of `for fut in as_completed(futures)`: fut.result() of a call
\* that is done; the summary is stored unless the call failed or gave None.
Store ==
    /\ gs_pc = "wait"
    /\ \E i \in 1..Len(futures) :
          /\ futures[i].state = "done"
          /\ LET r == futures[i].value[1]
             IN nodes' = IF r.error = None /\ r.summary # None
                         THEN [nodes EXCEPT ![r.nid].summary = r.summary]
                         ELSE nodes
          /\ futures' = [futures EXCEPT ![i].state = "stored"]
          /\ pbar' = Append(pbar, futures[i].nid)
    /\ UNCHANGED << gs_pc, gs_args, levels, depth, cursor, parser_vars, cc_vars, env_vars >>

\* Mutant of NextLevel: the next level is begun without waiting for the calls
\* of this one.
NextLevelEarly ==
    /\ gs_pc = "wait"
    /\ LET later == {d \in DOMAIN levels : d > depth}
       IN IF later = {}
          THEN /\ \A i \in 1..Len(futures) : futures[i].state = "stored"
               /\ gs_pc' = "returned" /\ UNCHANGED << depth, cursor, futures >>
          ELSE /\ gs_pc' = "submit"
               /\ depth' = CHOOSE d \in later : \A e \in later : d <= e
               /\ cursor' = 1
               /\ futures' = << >>
    /\ UNCHANGED << gs_args, levels, pbar, nodes, parser_vars, cc_vars, env_vars >>

\* as_completed is exhausted: the next level, or the end of the call.
NextLevel ==
    /\ gs_pc = "wait"
    /\ \A i \in 1..Len(futures) : futures[i].state = "stored"
    /\ LET later == {d \in DOMAIN levels : d > depth}
       IN IF later = {}
          THEN gs_pc' = "returned" /\ UNCHANGED << depth, cursor, futures >>
          ELSE /\ gs_pc' = "submit"
               /\ depth' = CHOOSE d \in later : \A e \in later : d <= e
               /\ cursor' = 1
               /\ futures' = << >>
    /\ UNCHANGED << gs_args, levels, pbar, nodes, parser_vars, cc_vars, env_vars >>

NextSummary == GenerateSummary \/ Submit \/ Start \/ Finish \/ Store \/ NextLevel

SpecSummary == InitSummary /\ [][NextSummary]_vars

\* A step of a pass that has been started.
PassStep == Submit \/ Start \/ Finish \/ Store \/ NextLevel

\* The main thread and the threads of the pool keep running: a step of the
\* pass that can be taken is taken.  No step of a pass can be repeated, so
\* this is as strong as fairness for each thread.  Nothing makes the caller
\* call generate_summary.
SpecSummaryFair == SpecSummary /\ WF_vars(PassStep)

\* ================================================================ claims
\* ------------------------------------------------- vocabulary of the claims
\* A statement list without its positions.
RECURSIVE Strip(_)
Strip(stmts) ==
    [i \in 1..Len(stmts) |->
        [stmts[i] EXCEPT !.body = Strip(@), !.orelse = Strip(@), !.s = 0, !.e = 0]]

\* The function definitions of a module whose qualified name is `target`, in
\* document order.
RECURSIVE Defs(_, _, _)
Defs(stmts, stack, target) ==
    IF stmts = << >> THEN << >>
    ELSE LET st == Head(stmts)
             inner == IF st.k = "class" THEN Append(stack, st.nm) ELSE stack
         IN (IF st.k = "def" /\ Append(stack, st.nm) = target THEN << st >> ELSE << >>)
            \o Defs(st.body, inner, target) \o Defs(st.orelse, stack, target)
            \o Defs(Tail(stmts), stack, target)

Names(stmts) == [i \in 1..Len(stmts) |-> stmts[i].nm]

\* The call `c` is an edit that got through parser.edit_symbol.
EditReturned(c) == c.op = "tree.edit_symbol" /\ c.parser_raised = None

\* The kind under which `idx` holds the symbol, "none" when it does not.
KindIn(idx, file, symbol_path) ==
    IF DictHas(idx, file) /\ RecsHas(DictGet(idx, file), symbol_path)
    THEN RecsGet(DictGet(idx, file), symbol_path).kind
    ELSE "none"

\* The lines before the span of r0 in `old` are the lines before the span of
\* r1 in `new`, and likewise the lines after.
OutsideSpanSame(old, new, r0, r1) ==
    /\ SubSeq(old, 1, r0.position.start[1] - 1) = SubSeq(new, 1, r1.position.start[1] - 1)
    /\ SubSeq(old, r0.position.end[1] + 1, Len(old))
         = SubSeq(new, r1.position.end[1] + 1, Len(new))

\* C1: after a successful edit_symbol on a function or method of an indexed
\* file, the lines of the file outside the target symbol's span are the same
\* lines, in the same order, as before the edit.
C1_OutsideSpanUnchanged ==
    [][ ( /\ EditReturned(last')
          /\ KindIn(index, last'.file, last'.symbol_path) \in {"function", "method"} )
        => OutsideSpanSame(DictGet(sources, last'.file), DictGet(sources', last'.file),
                           RecsGet(DictGet(index, last'.file), last'.symbol_path),
                           RecsGet(DictGet(index', last'.file), last'.symbol_path)) ]_vars

\* The function is a def line, an if line and a pass line, and nothing else.
IfPassOnly(fn) ==
    /\ fn.hl = 1
    /\ Len(fn.body) = 1
    /\ fn.body[1].k = "if" /\ fn.body[1].lead = 0 /\ fn.body[1].hl = 1
    /\ Strip(fn.body[1].body) = << Simple("pass") >>
    /\ fn.body[1].orelse = << >>

\* The call inserts `x = 1` at relative line 1 into a function that is
\* if/pass only in module `mod`.
IsIfPassInsert(c, mods) ==
    /\ EditReturned(c)
    /\ c.mode = "insert" /\ c.relative_line = 1 /\ c.new_code = CodeX
    /\ DictHas(mods, c.file)
    /\ Len(Defs(DictGet(mods, c.file), << >>, c.symbol_path)) = 1
    /\ IfPassOnly(Defs(DictGet(mods, c.file), << >>, c.symbol_path)[1])

\* The body of the function's if block after the call, as statement texts.
IfBlockAfter(c, mods) == Names(Defs(DictGet(mods, c.file), << >>, c.symbol_path)[1].body[1].body)

\* C2 as stated: the insert at relative line 1 leaves the if block as
\* [pass, x = 1].
C2_InsertLandsAfterPass ==
    [][ IsIfPassInsert(last', modules) => IfBlockAfter(last', modules') = << "pass", "x = 1" >> ]_vars

\* C2 as amended: the insert at relative line 1 (the pass line) puts x = 1
\* inside the if block, before pass: the block becomes [x = 1, pass] and the
\* if statement stays the function's only statement.
C2_InsertLandsInsideIfBeforePass ==
    [][ IsIfPassInsert(last', modules)
        => /\ IfBlockAfter(last', modules') = << "x = 1", "pass" >>
           /\ Len(Defs(DictGet(modules', last'.file), << >>, last'.symbol_path)[1].body) = 1 ]_vars

\* A state right after such an insert.
C2_Witness ==
    /\ EditReturned(last)
    /\ last.mode = "insert" /\ last.relative_line = 1 /\ last.new_code = CodeX
    /\ last.file = FileT
    /\ Strip(DictGet(modules, FileT))
         = << FunctionDef("t", << If("c", << Simple("x = 1"), Simple("pass") >>, << >>) >>) >>

\* C3: an insert at relative line 0 on a function or method makes the body of
\* every definition it edits the new statements, in order, followed by the
\* old body.
C3_InsertAtZeroIsFirst ==
    [][ ( /\ EditReturned(last')
          /\ last'.mode = "insert" /\ last'.relative_line = 0
          /\ DictHas(modules, last'.file)
          /\ Defs(DictGet(modules, last'.file), << >>, last'.symbol_path) # << >> )
        => LET before == Defs(DictGet(modules, last'.file), << >>, last'.symbol_path)
               after == Defs(DictGet(modules', last'.file), << >>, last'.symbol_path)
           IN /\ Len(after) = Len(before)
              /\ \A i \in 1..Len(before) :
                   Strip(after[i].body) = last'.new_code.stmts \o Strip(before[i].body) ]_vars

\* A state right after an insert of two statements at relative line 0 into
\* a.py::f: they are the first statements of its body.
C3_Witness ==
    /\ EditReturned(last)
    /\ last.mode = "insert" /\ last.relative_line = 0
    /\ last.file = FileA /\ last.symbol_path = << "f" >> /\ last.new_code = CodeYZ
    /\ Names(Defs(DictGet(modules, FileA), << >>, << "f" >>)[1].body)
         = << "y = 2", "z = 3", "c", "return" >>

\* The replace call `c` resolves, in some definition of the target in module
\* `mod`, to the index just past the last statement of the located body.
ReplacePastEnd(c, mods) ==
    /\ c.op = "tree.edit_symbol" /\ c.mode = "replace" /\ c.new_code.ok
    /\ DictHas(mods, c.file)
    /\ \E i \in 1..Len(Defs(DictGet(mods, c.file), << >>, c.symbol_path)) :
         LET fn == Defs(DictGet(mods, c.file), << >>, c.symbol_path)[i]
             r == ResolveInsertion(fn.body, fn.s + 1 + c.relative_line)
         IN r.index = Len(GetParentBody(fn.body, r.path))

\* C4: a replace whose resolved index equals the length of the located body
\* raises IndexError and leaves the source text, the module and the symbol
\* table of every file as they were.
C4_ReplacePastEndFails ==
    [][ ReplacePastEnd(last', modules)
        => /\ last'.parser_raised = Some("IndexError")
           /\ last'.raised = Some("IndexError")
           /\ UNCHANGED << index, sources, modules >> ]_vars

\* A state right after a replace that pointed past the last statement of the
\* if block of a.py::f.
C4_Witness ==
    /\ last.op = "tree.edit_symbol" /\ last.mode = "replace"
    /\ last.file = FileA /\ last.symbol_path = << "f" >> /\ last.relative_line = 2
    /\ last.parser_raised = Some("IndexError")

\* C5: an insert of a non-empty statement list on a symbol the index resolves
\* (function, method or class) never returns with the file's text unchanged.
C5_InsertChangesDocument ==
    [][ ( /\ EditReturned(last')
          /\ last'.mode = "insert" /\ last'.new_code.stmts # << >>
          /\ KindIn(index, last'.file, last'.symbol_path) # "none" )
        => DictGet(sources', last'.file) # DictGet(sources, last'.file) ]_vars

\* ------------------------------------------------------ tree invariants
RECURSIVE ReachableFrom(_, _, _)
ReachableFrom(ns, todo, seen) ==
    IF todo = {} THEN seen
    ELSE LET id == CHOOSE i \in todo : TRUE
             kids == IF id \in DOMAIN ns
                     THEN {ns[id].children[i] : i \in 1..Len(ns[id].children)}
                     ELSE {}
         IN ReachableFrom(ns, (todo \cup kids) \ (seen \cup {id}), seen \cup {id})

Reachable(ns) == ReachableFrom(ns, {RootId}, {})

\* The places (node, position in its child list) where `id` is listed.
Listings(ns, id) ==
    {p \in UNION {{<< n, i >> : i \in 1..Len(ns[n].children)} : n \in DOMAIN ns} :
        ns[p[1]].children[p[2]] = id}

TreeWellFormed(ns) ==
    /\ Reachable(ns) \subseteq DOMAIN ns
    /\ \A id \in DOMAIN ns \ {RootId} :
         /\ Cardinality(Listings(ns, id)) = 1
         /\ \A p \in Listings(ns, id) : ns[id].parent = Some(p[1])

\* C10: once the tree is built, and after every tree edit_symbol call, every
\* id reachable from the root exists, and every other node is listed exactly
\* once, in the child list of the node its parent field names.
C10_TreeWellFormed == phase = "built" => TreeWellFormed(nodes)
\* ------------------------------------------------------------------- C6
RECURSIVE CostOf(_)
CostOf(d) == IF d = << >> THEN 0 ELSE Max(1, Len(d[1][2]) \div 4) + CostOf(Tail(d))

\* C6: the estimated token costs, max(1, len(text) // 4), of the texts that
\* collect_context returns sum to at most token_budget, and a token_budget of
\* 0 returns nothing.
C6_WithinBudget ==
    pc = "returned" =>
        /\ CostOf(out) <= cc_args.token_budget
        /\ cc_args.token_budget = 0 => out = << >>

\* A call that returned some texts, had budget left, and still left out a node
\* it processed and tried to add, whose text did not fit.
C6_Witness ==
    /\ pc = "returned"
    /\ out # << >>
    /\ CostOf(out) < cc_args.token_budget
    /\ \E i \in 1..Len(cc_args.include_order) : cc_args.include_order[i] = "self"
    /\ \E i \in 1..Len(popped) :
          /\ TextForCompletion(nodes[popped[i]], cc_args.include_mode, MaxChars) # << >>
          /\ ~DictHas(out, popped[i])

\* ------------------------------------------------------------------- C7
\* The place of a category in the include order the caller passed.
PlaceOf(order, cat) == CHOOSE i \in 1..Len(order) : order[i] = cat

\* C7: at each node popped, the attempts to add happen in the order of the
\* caller's include order: an attempt of a category listed later never comes
\* before one of a category listed earlier.
C7_AttemptsFollowIncludeOrder ==
    \A i, j \in 1..Len(attempts) :
        i < j => PlaceOf(cc_args.include_order, attempts[i].cat)
                 <= PlaceOf(cc_args.include_order, attempts[j].cat)

\* ------------------------------------------------------------------- C8
FirstAt(s, x) == CHOOSE i \in 1..Len(s) : s[i] = x /\ \A j \in 1..(i - 1) : s[j] # x
IsIn(s, x) == \E i \in 1..Len(s) : s[i] = x

RECURSIVE Subtree(_, _)
Subtree(ns, nid) ==
    {nid} \cup UNION { Subtree(ns, ns[nid].children[i]) : i \in 1..Len(ns[nid].children) }

\* Child a of a node is taken before child b: greater score, or the same score
\* and stored earlier.
TakenBefore(ch, scores, a, b) ==
    \/ scores[a] > scores[b]
    \/ scores[a] = scores[b] /\ FirstAt(ch, a) < FirstAt(ch, b)

\* C8: the nodes are popped in depth-first pre-order from the root, children
\* by descending score and ties in stored order: no node is processed twice,
\* the root comes first, a node comes after its parent, and when a child is
\* popped the whole subtree of every sibling taken before it has been popped.
C8_BestFirstPreOrder ==
    /\ \A i, j \in 1..Len(popped) : i # j => popped[i] # popped[j]
    /\ popped # << >> => popped[1] = RootId
    /\ \A i \in 2..Len(popped) :
          /\ nodes[popped[i]].parent # None
          /\ \E j \in 1..(i - 1) : popped[j] = nodes[popped[i]].parent[1]
    /\ \A p \in DOMAIN nodes :
       \A i, j \in 1..Len(nodes[p].children) :
          LET a == nodes[p].children[i]
              b == nodes[p].children[j]
          IN (a # b /\ IsIn(popped, b) /\ TakenBefore(nodes[p].children, cc_args.scores, a, b))
             => \A d \in Subtree(nodes, a) :
                    IsIn(popped, d) /\ FirstAt(popped, d) < FirstAt(popped, b)

\* The whole tree popped: a.py and within it g score higher, so a.py, then g
\* before f, then the equal-scored b.py and c.py in stored order.
C8_Witness ==
    /\ pc = "returned"
    /\ nodes = TreeWide
    /\ cc_args.scores[NodeA] > cc_args.scores[NodeB]
    /\ cc_args.scores[NodeG] > cc_args.scores[NodeF]
    /\ popped = << RootId, NodeA, NodeG, NodeF, NodeB, NodeC >>

\* ------------------------------------------------------------------- C9
SameFields(a, b) ==
    /\ a.id = b.id /\ a.kind = b.kind /\ a.name = b.name
    /\ a.summary = b.summary /\ a.source = b.source /\ a.children = b.children

\* C9: importing the JSON exported with the source included gives a tree in
\* which every node has the id, kind, name, summary, source and child list of
\* the original node with that id.
C9_RoundTrip ==
    phase = "built" =>
        LET imported == CreateFromJson(ToJson(nodes, TRUE))
        IN \A nid \in DOMAIN imported :
              nid \in DOMAIN nodes /\ SameFields(imported[nid], nodes[nid])


\* ------------------------------------------------------------------ C11
\* The nodes of `file` (the file node and its symbol nodes) in `ns`.
FileBranch(ns, file) == {nid \in DOMAIN ns : nid.f = file}

\* C11: a tree edit_symbol call that returns and whose target had no node
\* leaves the branch of the file as a fresh build from the refreshed index
\* makes it: the same node ids, each with the same kind, parent and child list.
C11_RebuildIsFreshBuild ==
    [][ ( /\ last'.op = "tree.edit_symbol" /\ last'.raised = None
          /\ Id(last'.file, last'.symbol_path) \notin DOMAIN nodes
          /\ Id(last'.file, << >>) \in DOMAIN nodes )
        => LET fresh == BuildFromParserWithFolder(FreshNodes,
                                                  Parser(index', sources', modules'))
           IN /\ FileBranch(nodes', last'.file) = FileBranch(fresh, last'.file)
              /\ \A nid \in FileBranch(fresh, last'.file) :
                    /\ nodes'[nid].kind = fresh[nid].kind
                    /\ nodes'[nid].parent = fresh[nid].parent
                    /\ nodes'[nid].children = fresh[nid].children ]_vars

\* ------------------------------------------------------------------ C12
\* C12: a tree edit_symbol call that returns and whose target has a node
\* leaves the file node holding the new file text and the target node holding
\* the lines of the fresh record, first line to last line and no line more,
\* as the build stores them.
C12_EditStoresSymbolLines ==
    [][ ( /\ last'.op = "tree.edit_symbol" /\ last'.raised = None
          /\ Id(last'.file, last'.symbol_path) \in DOMAIN nodes
          /\ Id(last'.file, << >>) \in DOMAIN nodes )
        => LET q == Parser(index', sources', modules')
               rec == RecsGet(DictGet(index', last'.file), last'.symbol_path)
           IN /\ nodes'[Id(last'.file, << >>)].source = Some(DictGet(sources', last'.file))
              /\ nodes'[Id(last'.file, last'.symbol_path)].source
                    = Some(GetSourceWithContext(q, rec, 0, 0)) ]_vars

\* ------------------------------------------------------------------ C13
IsBuild(c) == c.op \in {"build_from_parser", "build_from_parser_with_folder"}

\* The node that holds `id` in its child list exactly once, and no other does.
OnlyChildOf(ns, id, parent_id) ==
    /\ ns[id].parent = Some(parent_id)
    /\ \A n \in DOMAIN ns :
          Cardinality({i \in 1..Len(ns[n].children) : ns[n].children[i] = id})
            = IF n = parent_id THEN 1 ELSE 0

\* C13: in the tree just built from an index every record has the node
\* <file>::<qualified name> of its kind; a method's node is a child of the
\* class node named by the qualified name without its last part when there is
\* such a class node and of the file node otherwise; a function's or class's
\* node is a child of the file node.
C13_SymbolsUnderClassOrFile ==
    (phase = "built" /\ IsBuild(last)) =>
        \A k \in 1..Len(index) :
        \A i \in 1..Len(index[k][2]) :
            LET file == index[k][1]
                rec == index[k][2][i]
                nid == Id(file, rec.qualname)
                cls_id == Id(file, Front(rec.qualname))
            IN /\ nid \in DOMAIN nodes
               /\ nodes[nid].kind = rec.kind
               /\ OnlyChildOf(nodes, nid,
                     IF /\ rec.kind = "method"
                        /\ cls_id \in DOMAIN nodes
                        /\ nodes[cls_id].kind = "class"
                     THEN cls_id ELSE Id(file, << >>))

\* The tree built without folders from a.py (class C, method C.m) and
\* pkg/b.py (function f): project -> a.py -> C -> C.m, project -> pkg/b.py -> f.
C13_Witness ==
    /\ phase = "built" /\ last.op = "build_from_parser"
    /\ Id(FileA, << "C", "m" >>) \in DOMAIN nodes /\ Id(FileB, << "f" >>) \in DOMAIN nodes
    /\ nodes[Id(FileA, << "C", "m" >>)].parent = Some(Id(FileA, << "C" >>))
    /\ nodes[Id(FileA, << "C" >>)].parent = Some(Id(FileA, << >>))
    /\ nodes[Id(FileA, << >>)].parent = Some(RootId)
    /\ nodes[Id(FileB, << "f" >>)].parent = Some(Id(FileB, << >>))
    /\ nodes[Id(FileB, << >>)].parent = Some(RootId)

\* ------------------------------------------------------------------ C14
FolderId(file, k) == IF k = 0 THEN RootId ELSE Id(SubSeq(file, 1, k), << >>)

\* The directory prefixes of `file` are folder nodes chained from the project
\* root, and the file node hangs under the deepest of them.
FoldersOf(ns, file) ==
    /\ \A k \in 1..(Len(file) - 1) :
          /\ FolderId(file, k) \in DOMAIN ns
          /\ ns[FolderId(file, k)].kind = "folder"
          /\ OnlyChildOf(ns, FolderId(file, k), FolderId(file, k - 1))
    /\ Id(file, << >>) \in DOMAIN ns
    /\ ns[Id(file, << >>)].kind = "file"
    /\ OnlyChildOf(ns, Id(file, << >>), FolderId(file, Len(file) - 1))

\* C14: in the tree just built with folders, every indexed file d1/.../dk/name
\* has one folder node for each directory prefix d1, d1/d2, ..., each a child
\* of the one before it (d1 of the project root), and the file node is a child
\* of the deepest folder node, whatever the directories are called.
C14_OneFolderPerDirectory ==
    (phase = "built" /\ last.op = "build_from_parser_with_folder") =>
        \A k \in 1..Len(index) : FoldersOf(nodes, index[k][1])

\* ------------------------------------------------------------------ C15
\* The declarations of a statement list in document order, each with the
\* names of the classes that enclose it.
Decl(classes, kind, st) == [q |-> Append(classes, st.nm), kind |-> kind, s |-> st.s, e |-> st.e]

RECURSIVE Declared(_, _)
Declared(stmts, classes) ==
    IF stmts = << >> THEN << >>
    ELSE LET st == Head(stmts)
             own == IF st.k = "class" THEN << Decl(classes, "class", st) >>
                    ELSE IF st.k = "def"
                    THEN << Decl(classes, IF classes # << >> THEN "method" ELSE "function", st) >>
                    ELSE << >>
             inner == IF st.k = "class" THEN Append(classes, st.nm) ELSE classes
         IN own \o Declared(st.body, inner) \o Declared(st.orelse, inner)
                \o Declared(Tail(stmts), classes)

IsRecordOf(rec, dc) ==
    /\ rec.qualname = dc.q
    /\ rec.kind = dc.kind
    /\ rec.position.start[1] = dc.s
    /\ rec.position.end[1] = dc.e

LastDeclared(decl, q) ==
    CHOOSE j \in 1..Len(decl) :
        /\ decl[j].q = q
        /\ \A l \in (j + 1)..Len(decl) : decl[l].q # q

\* C16: the table of an indexed document holds one record for every
\* qualified name declared in it, and the record's kind and position are those
\* of the last declaration of that name in document order.
C16_LastDeclarationWins ==
    \A k \in 1..Len(index) :
        LET file == index[k][1]
            recs == index[k][2]
            decl == Declared(DictGet(modules, file), << >>)
        IN /\ \A j \in 1..Len(decl) :
                 Cardinality({i \in 1..Len(recs) : recs[i].qualname = decl[j].q}) = 1
           /\ \A i \in 1..Len(recs) :
                 /\ \E j \in 1..Len(decl) : decl[j].q = recs[i].qualname
                 /\ IsRecordOf(recs[i], decl[LastDeclared(decl, recs[i].qualname)])

\* pkg/dup.py declares f three times (a class, a function, a function nested
\* in g); its table holds f as the function declared last.
C16_Witness ==
    /\ DictHas(index, FileDup)
    /\ LET recs == DictGet(index, FileDup)
           decl == Declared(DictGet(modules, FileDup), << >>)
       IN /\ Cardinality({j \in 1..Len(decl) : decl[j].q = << "f" >>}) = 3
          /\ decl[1].q = << "f" >> /\ decl[1].kind = "class"
          /\ \E i \in 1..Len(recs) :
                /\ recs[i].qualname = << "f" >>
                /\ recs[i].kind = "function"
                /\ recs[i].position.start[1] = decl[Len(decl)].s

\* ------------------------------------------------------------------ C17
\* A build_index call that follows a build_index call with the same
\* include_tests, nothing written to the directory in between.
RepeatedBuildIndex ==
    /\ last.op = "build_index"
    /\ last'.op = "build_index"
    /\ last'.mode = last.mode
    /\ disk' = disk
    /\ result' = NoResolve

\* C17: build_index called again on an unchanged directory leaves the index
\* as the first call left it: the same files in the same order, and for every
\* file the same names with the same kinds and positions.
C17_BuildIndexIdempotent ==
    [][RepeatedBuildIndex => index' = index]_vars

\* A second build_index on a directory with a.py, a test file and a file
\* that does not parse, which changed nothing.
C17_Witness ==
    /\ last.op = "build_index" /\ ~last.changed
    /\ phase = "indexed"
    /\ DictHas(index, FileA)
    /\ DictHas(disk, FileX) /\ DictHas(disk, FileT)

\* ------------------------------------------------------------------ C18
\* The files of the directory that can be read and parsed.
ParsedFiles(dsk) ==
    {dsk[i][1] : i \in {j \in 1..Len(dsk) : dsk[j][2].readable /\ dsk[j][2].parses}}

\* C18: right after a build_index call the index holds exactly the files
\* that the call read and parsed (without the test files when include_tests
\* is false), each with the complete table of its present text; a file that
\* failed to parse has no symbols in the index.  This is to hold for a repeated
\* call on a parser that already holds entries too.
C18_IndexIsWhatWasParsed ==
    last.op = "build_index" =>
        /\ KeySet(index) =
              {file \in ParsedFiles(disk) : last.mode = "include_tests" \/ ~IsTestPath(file)}
        /\ \A k \in 1..Len(index) :
              index[k][1] \in ParsedFiles(disk) =>
                  index[k][2] = SymbolCollector(index[k][1],
                                    MetadataWrapper(DictGet(disk, index[k][1]).mod))

\* ------------------------------------------------------------------ C19
NoTestFiles(idx) == \A k \in 1..Len(idx) : ~IsTestPath(idx[k][1])

\* C19: once build_index(include_tests = False) has left the index without
\* test files, an edit_symbol call on a file of the project keeps it so: the
\* index still holds no file with a path part tests or a name starting test_.
C19_EditsKeepTestsFiltered ==
    [][(last'.op = "tree.edit_symbol" /\ phase = "built" /\ NoTestFiles(index))
          => NoTestFiles(index')]_vars

\* ------------------------------------------------------------------ C20
Blank(s) == \A i \in 1..Len(s) : s[i] \in Whitespace

\* s without the whitespace in front of it and behind it.
Trimmed(s) ==
    CHOOSE u \in {SubSeq(s, a, b) : a \in 1..(Len(s) + 1), b \in 0..Len(s)} :
        /\ \E a \in 1..(Len(s) + 1), b \in 0..Len(s) :
              /\ u = SubSeq(s, a, b)
              /\ Blank(SubSeq(s, 1, a - 1))
              /\ Blank(SubSeq(s, b + 1, Len(s)))
        /\ u # << >> => (u[1] \notin Whitespace /\ u[Len(u)] \notin Whitespace)

NamesOf(recs) == {Dotted(recs[i].qualname) : i \in 1..Len(recs)}

Returns(res, recs, name) ==
    /\ res.raised = None
    /\ res.value # None
    /\ \E i \in 1..Len(recs) : recs[i] = res.value[1]
    /\ Dotted(res.value[1].qualname) = name

Fails(res, message, available) ==
    /\ res.value = None
    /\ res.raised = Some(KeyError(message, available))

ResolveAsSpecified(res, idx) ==
    IF ~DictHas(idx, res.file) THEN Fails(res, "File not indexed", {})
    ELSE LET recs == DictGet(idx, res.file)
         IN IF res.symbol_path \in NamesOf(recs)
            THEN Returns(res, recs, res.symbol_path)
            ELSE IF Trimmed(res.symbol_path) \in NamesOf(recs)
            THEN Returns(res, recs, Trimmed(res.symbol_path))
            ELSE Fails(res, "Symbol not found", NamesOf(recs))

FlatText(lines) == Join(<< "\n" >>, lines)

\* The number of characters of the text before column col of line `line`.
RECURSIVE Offset(_, _, _)
Offset(lines, line, col) ==
    IF line = 1 THEN col
    ELSE Len(lines[1]) + 1 + Offset(Tail(lines), line - 1, col)

CharRange(lines, position) ==
    SubSeq(FlatText(lines),
           Offset(lines, position.start[1], position.start[2]) + 1,
           Offset(lines, position.end[1], position.end[2]))

\* C21: for every record of the index get_source returns the characters of
\* the cached text of the file from (start_line, start_col) up to and without
\* (end_line, end_col).
C21_GetSourceIsCharRange ==
    \A k \in 1..Len(index) :
    \A i \in 1..Len(index[k][2]) :
        LET rec == index[k][2][i]
        IN Join(<< "\n" >>, GetSource(Parser(index, sources, modules), rec))
             = CharRange(DictGet(sources, rec.file), rec.position)

\* root/r.py is indexed: K.s spans one line from column 1, r spans two lines,
\* and the class K spans two lines.
C21_Witness ==
    /\ DictHas(index, FileR)
    /\ \E i, j \in 1..Len(DictGet(index, FileR)) :
          LET recs == DictGet(index, FileR)
          IN /\ recs[i].qualname = << "K", "s" >>
             /\ recs[i].position.start[1] = recs[i].position.end[1]
             /\ recs[i].position.start[2] = 1
             /\ GetSource(Parser(index, sources, modules), recs[i]) = << << "def", "s" >> >>
             /\ recs[j].qualname = << "r" >>
             /\ recs[j].position.start[1] < recs[j].position.end[1]

\* ------------------------------------------------------------------ C22
\* The tree as it was when generate_summary was called: the pass changes
\* summaries only.
TreeBefore == CHOOSE tr \in SummaryTrees : DOMAIN tr = DOMAIN nodes

Handled(nid) == \E i \in 1..Len(pbar) : pbar[i] = nid

WorkSet(ns) == {n \in DOMAIN ns : ~IsLeaf(ns[n])}

\* The pass done by one thread, a node at a time, children before parents.
RECURSIVE OneByOne(_, _, _)
OneByOne(ns, work, a) ==
    IF work = << >> THEN ns
    ELSE LET nid == Head(work)
             r == Execute(a.summarize_fn[nid], nid,
                          GatherChildText(ns, ns[nid], a.include_source_in_leaf))
         IN OneByOne(IF r.error = None /\ r.summary # None
                     THEN [ns EXCEPT ![nid].summary = r.summary] ELSE ns,
                     Tail(work), a)

\* C22: a call for a node is submitted only when the result of every work
\* node of smaller height has been handled, the text of the call lists every
\* child under the summary the child has now (the new one when its call gave
\* a non-empty summary), and the tree at the end of the pass is the one a
\* pass by a single thread gives, whatever the order the calls completed in.
C22_LevelsInOrder ==
    LET height == HeightOf(nodes)
    IN /\ \A i \in 1..Len(futures) :
             /\ \A n \in WorkSet(nodes) :
                   height[n] < height[futures[i].nid] => Handled(n)
             /\ futures[i].text = GatherChildText(nodes, nodes[futures[i].nid],
                                                  gs_args.include_source_in_leaf)
             /\ \A j \in 1..Len(nodes[futures[i].nid].children) :
                   LET c == nodes[futures[i].nid].children[j]
                   IN (c \in WorkSet(nodes) /\ gs_args.summarize_fn[c] = "ok")
                         => /\ nodes[c].summary # None
                            /\ nodes[c].summary[1][1] = "summary of"
       /\ gs_pc = "returned" =>
             nodes = OneByOne(TreeBefore, WorkNodes(TreeBefore, SummaryOrder(TreeBefore)),
                              gs_args)

\* A pass over the deep tree with two workers in which the class C was
\* handled before b.py, submitted first, and every call gave a summary.
C22_Witness ==
    /\ gs_pc = "returned"
    /\ pbar = << NodeCls, NodeB, NodeA, RootId >>
    /\ \A n \in WorkSet(nodes) : gs_args.summarize_fn[n] = "ok"
    /\ nodes[RootId].summary # None

\* ------------------------------------------------------------------ C23
NoneHangs == \A n \in DOMAIN gs_args.summarize_fn : gs_args.summarize_fn[n] # "hang"
SomeRaises == \E n \in DOMAIN gs_args.summarize_fn : gs_args.summarize_fn[n] = "raise"

\* At the end of the pass: every work node was handled, a node whose call
\* raised has the summary it had before, a node whose call returned a text has
\* that text as its summary.
PassComplete ==
    \A n \in WorkSet(nodes) :
        /\ Handled(n)
        /\ gs_args.summarize_fn[n] = "raise" => nodes[n].summary = TreeBefore[n].summary
        /\ gs_args.summarize_fn[n] \in {"ok", "empty"} =>
              nodes[n].summary =
                  SummarizeFn(gs_args.summarize_fn[n],
                              GatherChildText(nodes, nodes[n], gs_args.include_source_in_leaf))

\* The pass waits for results and none can come: no call is done and waits to
\* be stored, none can return, none can be started, and some are not stored.
Stuck ==
    /\ gs_pc = "wait"
    /\ \E i \in 1..Len(futures) : futures[i].state # "stored"
    /\ \A i \in 1..Len(futures) :
          /\ futures[i].state # "done"
          /\ futures[i].state = "running" => gs_args.summarize_fn[futures[i].nid] = "hang"
          /\ futures[i].state = "pending" => Cardinality(Running) >= Workers

\* C23: a pass in which the summarizer raises for some nodes (and hangs for
\* none) is never stopped by it: as long as it has not returned, a step of it
\* can be taken; at the end the nodes whose call raised have the summary they
\* had before the pass, and every other work node, on the same level and
\* above, ancestors of the failed nodes included, was submitted and has its
\* result stored.
C23_FailuresAreLocal ==
    /\ gs_pc = "returned" => PassComplete
    /\ (NoneHangs /\ SomeRaises) => ~Stuck

\* The pass over the deep tree has ended; the calls for C and for b.py raised,
\* the calls for a.py and for the project gave summaries.
C23_Witness ==
    /\ gs_pc = "returned"
    /\ DOMAIN nodes = DOMAIN TreeDeep
    /\ gs_args.summarize_fn[NodeCls] = "raise" /\ gs_args.summarize_fn[NodeB] = "raise"
    /\ gs_args.summarize_fn[NodeA] = "ok" /\ gs_args.summarize_fn[RootId] = "ok"
    /\ nodes[NodeCls].summary = None /\ nodes[NodeB].summary = Some(<< "old" >>)
    /\ nodes[NodeA].summary # None /\ nodes[RootId].summary # None

\* ------------------------------------------------------------------ C24
\* C24: a generate_summary call that was started returns in the end, also
\* when a summarizer call never returns.
C24_PassTerminates == (gs_pc = "submit") ~> (gs_pc = "returned")

\* ------------------------------------------------------------------ C25
AllSucceed ==
    \A n \in DOMAIN gs_args.summarize_fn : gs_args.summarize_fn[n] = "ok"

\* C25: after a pass in which every summarizer call gave a non-empty text,
\* every node of the tree has its summary set, the leaves included.
C25_EveryNodeSummarized ==
    (gs_pc = "returned" /\ AllSucceed) => \A n \in DOMAIN nodes : nodes[n].summary # None

\* ------------------------------------------------------------------ C26
\* Some statement of the list, or of a block or branch of a nested
\* if/for/while/with/try statement, starts at `line`.
RECURSIVE StartsAt(_, _)
StartsAt(stmts, line) ==
    \E i \in 1..Len(stmts) :
        \/ stmts[i].s = line
        \/ /\ stmts[i].k \in BodyOwners
           /\ (StartsAt(stmts[i].body, line) \/ StartsAt(stmts[i].orelse, line))

\* The list with the new statements put before the statement that starts at
\* `line` (insert) or in its place (replace), in whichever block or branch
\* that statement is.
RECURSIVE SpliceAtLine(_, _, _, _)
SpliceAtLine(stmts, line, new, mode) ==
    IF stmts = << >> THEN << >>
    ELSE LET st == Head(stmts)
         IN IF st.s = line
            THEN new \o (IF mode = "insert" THEN stmts ELSE Tail(stmts))
            ELSE << IF st.k \in BodyOwners
                    THEN [st EXCEPT !.body = SpliceAtLine(@, line, new, mode),
                                    !.orelse = SpliceAtLine(@, line, new, mode)]
                    ELSE st >>
                 \o SpliceAtLine(Tail(stmts), line, new, mode)

\* The call `c` got through, names one function of the module, and its target
\* line is the first line of a statement of that function.
HitsStatement(c, mods) ==
    /\ EditReturned(c)
    /\ c.mode \in {"insert", "replace"}
    /\ DictHas(mods, c.file)
    /\ Len(Defs(DictGet(mods, c.file), << >>, c.symbol_path)) = 1
    /\ LET fn == Defs(DictGet(mods, c.file), << >>, c.symbol_path)[1]
       IN StartsAt(fn.body, fn.s + 1 + c.relative_line)

\* C26: when the target line is the first line of a statement S of the target
\* function, in the primary block or in another branch (else and the like) of
\* nested if/for/while/with/try statements, an insert puts the new statements
\* right before S in the list that holds S and a replace puts them in place
\* of S.
C26_EditAtStatementStart ==
    [][ HitsStatement(last', modules)
        => LET fn == Defs(DictGet(modules, last'.file), << >>, last'.symbol_path)[1]
               after == Defs(DictGet(modules', last'.file), << >>, last'.symbol_path)[1]
           IN Strip(after.body)
                = Strip(SpliceAtLine(fn.body, fn.s + 1 + last'.relative_line,
                                     last'.new_code.stmts, last'.mode)) ]_vars

\* ------------------------------------------------------------------ C27
\* The call `c` got through and names one function of the module.
EditSucceeded(c, mods) ==
    /\ EditReturned(c)
    /\ c.raised = None
    /\ c.mode \in {"insert", "replace"}
    /\ DictHas(mods, c.file)
    /\ Len(Defs(DictGet(mods, c.file), << >>, c.symbol_path)) = 1

\* `new` is `old` with the statements `stmts` put in at `insert_idx` (insert) or in
\* place of the statement at `insert_idx` (replace), the other statements in their
\* order.
SplicedList(old, new, insert_idx, stmts, mode) ==
    LET k == Len(stmts)
        drop == IF mode = "insert" THEN 0 ELSE 1
    IN /\ Len(new) = Len(old) + k - drop
       /\ \A j \in 1..insert_idx : new[j] = old[j]
       /\ \A j \in 1..k : new[insert_idx + j] = stmts[j]
       /\ \A j \in (insert_idx + drop + 1)..Len(old) : new[j + k - drop] = old[j]

\* `new` differs from `old` only in the list that `path` leads to, which is
\* spliced; the owners on the way keep everything but that block.
RECURSIVE SplicedAt(_, _, _, _, _, _)
SplicedAt(old, new, path, insert_idx, stmts, mode) ==
    IF path = << >> THEN SplicedList(old, new, insert_idx, stmts, mode)
    ELSE /\ Len(new) = Len(old)
         /\ \A j \in 1..Len(old) :
               IF j = Head(path) + 1
               THEN /\ [new[j] EXCEPT !.body = << >>] = [old[j] EXCEPT !.body = << >>]
                    /\ SplicedAt(old[j].body, new[j].body, Tail(path), insert_idx, stmts, mode)
               ELSE new[j] = old[j]

\* C27: after a successful edit with resolved (path, index) and k new
\* statements, the list that path leads to is the old list with the k
\* statements put in at index, in order (insert: k longer), or in place of the
\* one statement at index (replace: k - 1 longer); every other statement of
\* the function and every other part of the owners along the path (condition,
\* else branch) is as before.
C27_SpliceAtResolvedIndex ==
    [][ EditSucceeded(last', modules)
        => LET fn == Defs(DictGet(modules, last'.file), << >>, last'.symbol_path)[1]
               after == Defs(DictGet(modules', last'.file), << >>, last'.symbol_path)[1]
               r == ResolveInsertion(fn.body, fn.s + 1 + last'.relative_line)
           IN /\ [Strip(<< after >>)[1] EXCEPT !.body = << >>]
                   = [Strip(<< fn >>)[1] EXCEPT !.body = << >>]
              /\ SplicedAt(Strip(fn.body), Strip(after.body), r.path, r.index,
                           Strip(last'.new_code.stmts), last'.mode) ]_vars

\* A replace of two statements for one inside the if block of a.py::f, whose
\* else branch is still there.
C27_Witness ==
    /\ EditReturned(last) /\ last.raised = None
    /\ last.file = FileA /\ last.symbol_path = << "f" >>
    /\ last.mode = "replace" /\ last.relative_line = 1
    /\ LET f == Defs(DictGet(modules, FileA), << >>, << "f" >>)[1]
       IN /\ Len(f.body[1].body) = 2
          /\ f.body[1].body[1].nm = "y = 2"
          /\ Len(f.body[1].orelse) = 1

\* ------------------------------------------------------------------ C28
\* For every file of the index, the cached text is the code of the cached
\* module and the table is what the collector makes of that module.
CachesAgree(idx, srcs, mods) ==
    \A i \in 1..Len(idx) :
        LET file == idx[i][1]
        IN /\ DictHas(srcs, file) /\ DictHas(mods, file)
           /\ DictGet(srcs, file) = ModuleCode(DictGet(mods, file))
           /\ idx[i][2] = SymbolCollector(file, MetadataWrapper(DictGet(mods, file)))

\* What the parser's edit_symbol call `c` returns from the parser `p`.
ReturnedRecord(p, c) ==
    ParserEditSymbol(p, c.file, c.symbol_path, c.relative_line, c.new_code, c.mode).rec

\* C28: in every state reached by build_index and edit_symbol calls, failing
\* ones included, for every file of the index the cached source text is the
\* code of the cached module and the symbol table is the result of indexing
\* that module; after an edit_symbol that returned, the target symbol is in
\* the table and the returned record is its entry.
C28_CachesConsistent ==
    /\ CachesAgree(index, sources, modules)
    /\ [][ /\ CachesAgree(index', sources', modules')
           /\ EditReturned(last')
              => /\ DictHas(index', last'.file)
                 /\ RecsHas(DictGet(index', last'.file), last'.symbol_path)
                 /\ ReturnedRecord(Parser(index, sources, modules), last')
                      = Some(RecsGet(DictGet(index', last'.file), last'.symbol_path)) ]_vars

\* An edit that returned and added a declaration: g is in the table of a.py.
C28_Witness ==
    /\ EditReturned(last)
    /\ last.file = FileA /\ last.new_code = CodeG
    /\ DictHas(index, FileA)
    /\ RecsHas(DictGet(index, FileA), << "g" >>)
    /\ ~RecsHas(SymbolCollector(FileA, MetadataWrapper(ModA)), << "g" >>)

\* ------------------------------------------------------------------ C29
\* The call `c` is an edit_symbol call that raised to the caller.
EditFailed(c) == c.op = "tree.edit_symbol" /\ c.raised # None

\* The source, the summary and the child list of every node.
NodeContents(ns) ==
    [nid \in DOMAIN ns |->
        [source |-> ns[nid].source, summary |-> ns[nid].summary,
         children |-> ns[nid].children]]

\* C29: an edit_symbol call that fails (file not loaded, new statements that
\* do not parse, a mode other than insert or replace, a replace past the last
\* statement, a symbol path that is not in the file) raises to the caller and
\* leaves the cached source text and the symbol table of every file, and the
\* source, summary and child list of every tree node, as they were.
C29_FailedEditChangesNothing ==
    [][ EditFailed(last')
        => /\ sources' = sources
           /\ index' = index
           /\ NodeContents(nodes') = NodeContents(nodes) ]_vars

\* ------------------------------------------------------------------ C30
\* The symbol nodes of `file`.
SymbolNodesOf(ns, file) == {nid \in DOMAIN ns : nid.f = file /\ nid.q # << >>}

\* For every file of the index the symbol nodes under the file are the names
\* of its table, and each node stores the lines of its record.
InSync(ns, idx) ==
    \A i \in 1..Len(idx) :
        LET file == idx[i][1]
            recs == idx[i][2]
        IN /\ SymbolNodesOf(ns, file) = {Id(file, recs[j].qualname) : j \in 1..Len(recs)}
           /\ \A j \in 1..Len(recs) :
                 ns[Id(file, recs[j].qualname)].meta.position
                    = Some(<< recs[j].position.start[1], recs[j].position.end[1] >>)

\* The call `c` is a tree edit_symbol call that returned.
TreeEditReturned(c) == c.op = "tree.edit_symbol" /\ c.raised = None

\* C30: after build_from_index the tree is in sync with the index, and every
\* successful tree edit_symbol call keeps it so: for every indexed file the
\* symbol node ids under the file are file-id::name for the names of the
\* file's current table (a declaration an edit adds or removes appears in or
\* goes from the tree), and each symbol node stores the lines of its current
\* record.
C30_TreeInSyncWithIndex ==
    [][ /\ last'.op = "build_from_parser_with_folder" => InSync(nodes', index')
        /\ (InSync(nodes, index) /\ TreeEditReturned(last')) => InSync(nodes', index') ]_vars

====
